---- MODULE Spec2Model ----
(***************************************************************************)
(* A model of the concurrent crawl engine of ai-search                     *)
(* (internal/crawler/crawler.go): the orchestrator goroutine of Crawl, the *)
(* worker goroutines, the frontier channel, the visited set, the two       *)
(* output streams, the cancellation signal and the per-domain rate         *)
(* limiter.                                                                *)
(***************************************************************************)
EXTENDS Integers, Sequences, FiniteSets, TLC

\* ------------------------------------------------------------------------
\* Bounds of the model
\* ------------------------------------------------------------------------

\* Config.MaxWorkers of the run (the worker pool size).
MaxWorkers == 2
\* Largest maxDepth argument of Crawl.
MaxDepthBound == 2
\* Capacity of the frontier channel (make(chan urlWithDepth, 1000)), scaled.
UrlChanCap == 2
\* Capacity of the page stream (make(chan *Page, 100)), scaled.
PageChanCap == 1
\* Capacity of the error stream (make(chan error, 100)), scaled.
ErrorChanCap == 1

\* Calls of SetRateLimit made during a run of the rate limiter.
MaxSetRate == 1

\* time.After(5 * time.Second) in rateLimit, in seconds.
GraceTimeout == 5

Workers == 1..MaxWorkers
\* The URL strings of the crawled site: the seed and one more page.
startURL == "https://a.test/"
URLs == {startURL, "https://a.test/p"}
Depths == (-1)..MaxDepthBound

\* The lists of outbound links a page may carry (already normalized and
\* validated by fetchAndParse): no link, one link, or two links, which may
\* be the same URL twice.
LinkLists ==
  {<<>>} \cup {<<u>> : u \in URLs} \cup {<<u, v>> : u \in URLs, v \in URLs}

\* ------------------------------------------------------------------------
\* State of one Crawl run
\* ------------------------------------------------------------------------
VARIABLES
  ctxDone,       \* the cancellation signal ctx.Done() has fired
  maxDepth,      \* the maxDepth argument of Crawl
  respectRobots, \* Config.RespectRobots
  urlChan,       \* the frontier: buffered channel of urlWithDepth
  urlClosed,     \* close(urlChan) has run
  pageChan,      \* the page stream
  pageClosed,    \* close(pageChan) has run
  errorChan,     \* the error stream
  errorClosed,   \* close(errorChan) has run
  visited,       \* the visited map (set of URL strings mapped to true)
  opc,           \* position of the orchestrator goroutine of Crawl
  wpc,           \* position of each worker goroutine
  cur,           \* urlData of each worker: the target it dequeued
  links,         \* page.Links still to be enqueued by each worker
  panicked,      \* a send on a closed channel happened (Go panics)
  claimed,       \* per URL: how many times a worker marked it visited and went on
  fetched        \* per URL: how many times fetchAndParse was called for it

\* What happened to the targets of the run
VARIABLES
  verdict,       \* per worker: what canCrawl answered for the target it
                 \* dequeued last ("": not asked, "allow", "deny")
  pageEvents,    \* per URL: page events sent on the page stream
  errorEvents    \* per URL: error events sent on the error stream

crawlHist == <<verdict, pageEvents, errorEvents>>

crawlVars == <<ctxDone, maxDepth, respectRobots, urlChan, urlClosed, pageChan,
               pageClosed, errorChan, errorClosed, visited, opc, wpc, cur,
               links, panicked, claimed, fetched, crawlHist>>

\* ------------------------------------------------------------------------
\* State of the rate limiter (time is counted in whole seconds)
\* ------------------------------------------------------------------------
VARIABLES
  configured,    \* the rate last configured by the caller: Config.RateLimit
                 \* given to NewCrawler, or the argument of SetRateLimit
  rateLimit,     \* c.config.RateLimit, a rational <<numerator, denominator>>
  rateLimiters,  \* c.rateLimiters: domain -> ticker (0: no entry)
  tickers,       \* the time.Ticker objects that are still referenced
  rpc,           \* position of each caller inside rateLimit
  rdom,          \* url.Host of the call
  rtick,         \* the local variable ticker of the call
  rwaited,       \* seconds the call has spent in its select
  srpc,          \* position of the caller of SetRateLimit
  setCalls,      \* calls of SetRateLimit so far
  passedNow      \* per domain: a request got past rateLimit during the
                 \* current second

rateVars == <<configured, rateLimit, rateLimiters, tickers, rpc, rdom, rtick,
              rwaited, srpc, setCalls, passedNow>>

\* ------------------------------------------------------------------------
\* State of the robots cache (RobotsCache) and of the calls of canCrawl
\* ------------------------------------------------------------------------
VARIABLES
  robotsCache,   \* rc.cache: domain -> *Robots (NoRobots: no entry)
  gpc,           \* position of each caller inside canCrawl / GetRobots
  gdom,          \* url.Host of the call
  gpath,         \* url.Path of the call
  gout,          \* what GetRobots returned to the call
  gallowed,      \* what canCrawl returned to the call
  glater,        \* the call began after a GetRobots call for its domain
                 \* had returned
  completed      \* per domain: a GetRobots call has returned

robotsVars == <<robotsCache, gpc, gdom, gpath, gout, gallowed, glater,
                completed>>

\* ------------------------------------------------------------------------
\* State of a run of the URL normalizer (Normalize, IsValid) on one URL
\* ------------------------------------------------------------------------
VARIABLES
  nraw,          \* the rawURL argument
  npc,           \* what was computed so far
  nonce,         \* Normalize(rawURL).String()
  ntwice,        \* Normalize(Normalize(rawURL).String()).String()
  nvalid         \* IsValid of the parsed rawURL

normVars == <<nraw, npc, nonce, ntwice, nvalid>>

\* ------------------------------------------------------------------------
\* State of one call of hybridIndexer.combineResults
\* ------------------------------------------------------------------------
VARIABLES
  vectorResults,   \* the vector backend's list
  bm25Results,     \* the BM25 backend's list
  limit,           \* the limit argument
  resultMap,       \* ChunkID -> fused score
  combinedResults, \* the slice built from resultMap
  fpc,             \* position of the call
  fret             \* the returned list

fuseVars ==
  <<vectorResults, bm25Results, limit, resultMap, combinedResults, fpc, fret>>

\* ------------------------------------------------------------------------
\* State of the hybrid indexer's two backends and of one Search call
\* ------------------------------------------------------------------------
VARIABLES
  chromaIdx,     \* chunk IDs stored in the ChromaDB collection
  esIdx,         \* chunk IDs stored in the Elasticsearch index
  ijob,          \* chunks of the Index call between its two backends
  qpc,           \* position of the Search call
  chromaHits,    \* stored chunk IDs of the ChromaDB query result, by rank
  esHits,        \* stored chunk IDs of the Elasticsearch hits, by rank
  vecOut,        \* ChunkIDs of searchChroma's results
  bmOut          \* ChunkIDs of searchElasticsearch's results

idxVars == <<chromaIdx, esIdx, ijob, qpc, chromaHits, esHits, vecOut, bmOut>>

\* ------------------------------------------------------------------------
\* State of one call of hybridRetriever.Retrieve and of its rerank task
\* ------------------------------------------------------------------------
VARIABLES
  retLimit,      \* the limit argument
  reranker,      \* r.reranker != nil
  retPc,         \* position of Retrieve
  searchResults, \* what Indexer.Search returned
  retResults,    \* the variable results of Retrieve
  retRet,        \* the list Retrieve returned
  callerDone,    \* the caller's context was cancelled
  taskPc,        \* position of the background goroutine
  taskCtx,       \* rerankCtx
  taskArg,       \* the results handed to Rerank
  taskOut,       \* what Rerank returned
  taskElapsed,   \* seconds since rerankCtx was created
  taskCount      \* goroutines started by this call

retVars ==
  <<retLimit, reranker, retPc, searchResults, retResults, retRet, callerDone,
    taskPc, taskCtx, taskArg, taskOut, taskElapsed, taskCount>>

\* ------------------------------------------------------------------------
\* State of one call of openRouterLLM.Rerank
\* ------------------------------------------------------------------------
VARIABLES
  ltexts,        \* the results argument
  lpc,           \* position of the call
  lresponse,     \* the answer of the model, as lines
  lfailed,       \* Generate returned an error
  lout,          \* the returned texts
  lerr           \* an error was returned

llmVars == <<ltexts, lpc, lresponse, lfailed, lout, lerr>>

\* ------------------------------------------------------------------------
\* State of the crawl command's result loop (runCrawl) and of the two
\* streams it reads
\* ------------------------------------------------------------------------
VARIABLES
  cliPages,       \* page events buffered in pageChan
  cliErrors,      \* error events buffered in errorChan
  cliPageClosed,  \* pageChan was closed
  cliErrorClosed, \* errorChan was closed
  emittedPages,   \* page events the crawler sent
  emittedErrors,  \* error events the crawler sent
  pageCount,
  errorCount,
  indexedCount,
  cliPc           \* "loop" inside the for loop, "done" at the label done

cliVars ==
  <<cliPages, cliErrors, cliPageClosed, cliErrorClosed, emittedPages,
    emittedErrors, pageCount, errorCount, indexedCount, cliPc>>

\* ------------------------------------------------------------------------
\* State of the chunks table and of one call of postgresStore.SaveChunks
\* ------------------------------------------------------------------------
VARIABLES
  chunksTable,   \* committed rows: chunk id -> document_id, "" where no row
  txTable,       \* the rows as the open transaction sees them
  sDoc,          \* the docID argument
  sChunks,       \* the chunks argument, as chunk ids
  sNext,         \* the chunk the insert loop is at
  sPc,           \* position of the call
  sErr,          \* the call returned an error
  sBefore        \* the committed rows when the call was made

storeVars ==
  <<chunksTable, txTable, sDoc, sChunks, sNext, sPc, sErr, sBefore>>

\* ------------------------------------------------------------------------
\* State of one request to the search endpoint (handleSearch)
\* ------------------------------------------------------------------------
VARIABLES
  hMethod,       \* r.Method
  hQuery,        \* the q parameter, or the query field of the JSON body
  hLimitText,    \* the limit parameter or field as written, "" when absent
  hPc,           \* position of the handler
  hReq,          \* req
  hStatus,       \* the HTTP status written, 0 while none
  hHanded        \* the limits handed to Retrieve

srvVars == <<hMethod, hQuery, hLimitText, hPc, hReq, hStatus, hHanded>>

\* ------------------------------------------------------------------------
\* State of the creation of one per-domain gate in rateLimit
\* ------------------------------------------------------------------------
VARIABLES
  gRate,         \* c.config.RateLimit as <<numerator, denominator>>
  gPc,           \* position of the call
  gInterval      \* the interval given to time.NewTicker, in seconds

gateVars == <<gRate, gPc, gInterval>>

\* ------------------------------------------------------------------------
\* State of one call of parseRobotsTxt
\* ------------------------------------------------------------------------
VARIABLES
  pBody,         \* the lines of the body
  pPc,           \* position of the call
  pRobots        \* the *Robots the call returned

parseVars == <<pBody, pPc, pRobots>>

\* ------------------------------------------------------------------------
\* State of the frontier of one Crawl run, with the URLs written out
\* ------------------------------------------------------------------------
VARIABLES
  inSeed,        \* the string the crawl command parses into startURL
  inPc,          \* position of the run
  inFrontier,    \* urlChan: the URL strings of the targets, in order
  inFetched,     \* the URL strings handed to fetchAndParse
  inLinks        \* links of fetched pages seen so far

intakeVars == <<inSeed, inPc, inFrontier, inFetched, inLinks>>

\* ------------------------------------------------------------------------
\* State of one call of fetchAndParse
\* ------------------------------------------------------------------------
VARIABLES
  fResp,         \* what the server answers to the request
  fPc,           \* position of the call
  fOut           \* what the call returned: "", "page" or "error"

fetchVars == <<fResp, fPc, fOut>>

\* ------------------------------------------------------------------------
\* State of one call of llmReranker.Rerank
\* ------------------------------------------------------------------------
VARIABLES
  rrResults,     \* the results argument: records of ChunkID and Text
  rrPc,          \* position of the call
  rrResponse,    \* the answer of the model inside r.llm.Rerank
  rrTexts,       \* rerankedTexts, what r.llm.Rerank returned
  rrOut,         \* the returned list
  rrErr          \* the returned error is not nil

rrVars == <<rrResults, rrPc, rrResponse, rrTexts, rrOut, rrErr>>

\* ------------------------------------------------------------------------
\* State of one Retrieve call with the steps of hybridIndexer.Search
\* ------------------------------------------------------------------------
VARIABLES
  hsFail,        \* the step of Search that fails in this call ("none": none)
  hsVec,         \* the chunk ids the vector backend holds for the query
  hsBm,          \* the chunk ids the lexical backend holds for the query
  hsReranker,    \* r.reranker != nil
  hsPc,          \* position of the call
  vectorGot,     \* vectorResults of Search
  bm25Got,       \* bm25Results of Search
  hsAsked,       \* the backends that answered a query of this call
  hsOut,         \* what Search returned
  hsRet,         \* what Retrieve returned
  hsTask         \* a rerank task was started

hsVars == <<hsFail, hsVec, hsBm, hsReranker, hsPc, vectorGot, bm25Got, hsAsked,
            hsOut, hsRet, hsTask>>

vars == <<crawlVars, rateVars, robotsVars, normVars, fuseVars, idxVars,
  retVars, llmVars, cliVars, storeVars, srvVars, gateVars, parseVars,
  intakeVars, fetchVars, rrVars, hsVars>>

\* What each component leaves alone.
nonCrawlVars == <<rateVars, robotsVars, normVars, fuseVars, idxVars, retVars,
  llmVars, cliVars, storeVars, srvVars, gateVars, parseVars, intakeVars,
  fetchVars, rrVars, hsVars>>
nonRateVars == <<crawlVars, robotsVars, normVars, fuseVars, idxVars, retVars,
  llmVars, cliVars, storeVars, srvVars, gateVars, parseVars, intakeVars,
  fetchVars, rrVars, hsVars>>
nonRobotsVars == <<crawlVars, rateVars, normVars, fuseVars, idxVars, retVars,
  llmVars, cliVars, storeVars, srvVars, gateVars, parseVars, intakeVars,
  fetchVars, rrVars, hsVars>>
nonNormVars == <<crawlVars, rateVars, robotsVars, fuseVars, idxVars, retVars,
  llmVars, cliVars, storeVars, srvVars, gateVars, parseVars, intakeVars,
  fetchVars, rrVars, hsVars>>
nonFuseVars == <<crawlVars, rateVars, robotsVars, normVars, idxVars, retVars,
  llmVars, cliVars, storeVars, srvVars, gateVars, parseVars, intakeVars,
  fetchVars, rrVars, hsVars>>
nonIdxVars == <<crawlVars, rateVars, robotsVars, normVars, fuseVars, retVars,
  llmVars, cliVars, storeVars, srvVars, gateVars, parseVars, intakeVars,
  fetchVars, rrVars, hsVars>>
nonRetVars == <<crawlVars, rateVars, robotsVars, normVars, fuseVars, idxVars,
  llmVars, cliVars, storeVars, srvVars, gateVars, parseVars, intakeVars,
  fetchVars, rrVars, hsVars>>
nonLlmVars == <<crawlVars, rateVars, robotsVars, normVars, fuseVars, idxVars,
  retVars, cliVars, storeVars, srvVars, gateVars, parseVars, intakeVars,
  fetchVars, rrVars, hsVars>>
nonCliVars == <<crawlVars, rateVars, robotsVars, normVars, fuseVars, idxVars,
  retVars, llmVars, storeVars, srvVars, gateVars, parseVars, intakeVars,
  fetchVars, rrVars, hsVars>>
nonStoreVars == <<crawlVars, rateVars, robotsVars, normVars, fuseVars,
  idxVars, retVars, llmVars, cliVars, srvVars, gateVars, parseVars,
  intakeVars, fetchVars, rrVars, hsVars>>
nonSrvVars == <<crawlVars, rateVars, robotsVars, normVars, fuseVars, idxVars,
  retVars, llmVars, cliVars, storeVars, gateVars, parseVars, intakeVars,
  fetchVars, rrVars, hsVars>>
nonGateVars == <<crawlVars, rateVars, robotsVars, normVars, fuseVars, idxVars,
  retVars, llmVars, cliVars, storeVars, srvVars, parseVars, intakeVars,
  fetchVars, rrVars, hsVars>>
nonParseVars == <<crawlVars, rateVars, robotsVars, normVars, fuseVars,
  idxVars, retVars, llmVars, cliVars, storeVars, srvVars, gateVars,
  intakeVars, fetchVars, rrVars, hsVars>>
nonIntakeVars == <<crawlVars, rateVars, robotsVars, normVars, fuseVars,
  idxVars, retVars, llmVars, cliVars, storeVars, srvVars, gateVars, parseVars,
  fetchVars, rrVars, hsVars>>
nonFetchVars == <<crawlVars, rateVars, robotsVars, normVars, fuseVars,
  idxVars, retVars, llmVars, cliVars, storeVars, srvVars, gateVars, parseVars,
  intakeVars, rrVars, hsVars>>
nonRrVars == <<crawlVars, rateVars, robotsVars, normVars, fuseVars, idxVars,
  retVars, llmVars, cliVars, storeVars, srvVars, gateVars, parseVars,
  intakeVars, fetchVars, hsVars>>
nonHsVars == <<crawlVars, rateVars, robotsVars, normVars, fuseVars, idxVars,
  retVars, llmVars, cliVars, storeVars, srvVars, gateVars, parseVars,
  intakeVars, fetchVars, rrVars>>

NoTarget == [url |-> "", depth |-> 0]

Target(u, d) == [url |-> u, depth |-> d]

\* A Page event: its URL, the depth the worker set, and its links.
Page(u, d, ls) == [url |-> u, depth |-> d, links |-> ls]

CrawlInit ==
  /\ ctxDone = FALSE
  /\ maxDepth \in Depths
  /\ respectRobots \in BOOLEAN
  /\ urlChan = <<>>
  /\ urlClosed = FALSE
  /\ pageChan = <<>>
  /\ pageClosed = FALSE
  /\ errorChan = <<>>
  /\ errorClosed = FALSE
  /\ visited = {}
  /\ opc = "seed"
  /\ wpc = [w \in Workers |-> "select"]
  /\ cur = [w \in Workers |-> NoTarget]
  /\ links = [w \in Workers |-> <<>>]
  /\ panicked = FALSE
  /\ claimed = [u \in URLs |-> 0]
  /\ fetched = [u \in URLs |-> 0]
  /\ verdict = [w \in Workers |-> ""]
  /\ pageEvents = [u \in URLs |-> 0]
  /\ errorEvents = [u \in URLs |-> 0]

\* The worker goroutines that call rateLimit at the same time.
RLCallers == {"w1", "w2"}

\* The host of the crawled site.
RLDomains == {"a.test"}

\* The rates a caller configures, as <<numerator, denominator>> requests
\* per second: -1, 0 and 0.1 (the default of the configuration).
Rates == {<<0 - 1, 1>>, <<0, 1>>, <<1, 10>>}

Positive(rate) == rate[1] > 0

\* At most one ticker per map entry and one per call in flight is referenced.
TickerIds == 1..(Cardinality(RLDomains) + Cardinality(RLCallers))

NoTicker == [interval |-> 0, left |-> 0, buf |-> 0, stopped |-> FALSE]

\* if config.RateLimit == 0 { config.RateLimit = 1.0 }
NewCrawlerRate(rate) == IF rate[1] = 0 THEN <<1, 1>> ELSE rate

RateInit ==
  /\ configured \in Rates
  /\ rateLimit = NewCrawlerRate(configured)
  /\ rateLimiters = [d \in RLDomains |-> 0]
  /\ tickers = [i \in TickerIds |-> NoTicker]
  /\ rpc = [w \in RLCallers |-> "idle"]
  /\ rdom = [w \in RLCallers |-> ""]
  /\ rtick = [w \in RLCallers |-> 0]
  /\ rwaited = [w \in RLCallers |-> 0]
  /\ srpc = "idle"
  /\ setCalls = 0
  /\ passedNow = [d \in RLDomains |-> FALSE]

\* Config.UserAgent after NewCrawler: if config.UserAgent == "" it is
\* "ai-search/1.0".
UserAgent == "ai-search/1.0"

\* A cache slot without entry (no policy has an empty user agent).
NoRobots == [UserAgent |-> "", Disallow |-> <<>>, CrawlDelay |-> 0]

\* &Robots{UserAgent: userAgent, Disallow: []string{}, CrawlDelay: 0}
Permissive(userAgent) ==
  [UserAgent |-> userAgent, Disallow |-> <<>>, CrawlDelay |-> 0]

\* No GetRobots result yet.
NoOut == [robots |-> NoRobots, err |-> FALSE, how |-> "", status |-> 0]

\* NewRobotsCache(): an empty cache; no call of canCrawl is in flight.
RobotsInit ==
  /\ robotsCache = [d \in RLDomains |-> NoRobots]
  /\ gpc = [c \in RLCallers |-> "idle"]
  /\ gdom = [c \in RLCallers |-> ""]
  /\ gpath = [c \in RLCallers |-> <<>>]
  /\ gout = [c \in RLCallers |-> NoOut]
  /\ gallowed = [c \in RLCallers |-> TRUE]
  /\ glater = [c \in RLCallers |-> FALSE]
  /\ completed = [d \in RLDomains |-> FALSE]

\* The seed of the crawl engine as a URL string.
SeedRaw ==
  [scheme |-> "https", name |-> "a.test", port |-> "", path |-> <<"/">>,
   qmark |-> FALSE, query |-> <<>>, fragment |-> ""]

\* No normalizer run has started.
NormRest ==
  /\ npc = "input"
  /\ nonce = SeedRaw
  /\ ntwice = SeedRaw
  /\ nvalid = FALSE

\* combineResults has been entered, nothing was merged.
FuseRest ==
  /\ resultMap = <<>>
  /\ combinedResults = <<>>
  /\ fpc = "vector"
  /\ fret = <<>>

\* No search is made.
FuseIdle ==
  /\ vectorResults = <<>>
  /\ bm25Results = <<>>
  /\ limit = 0
  /\ FuseRest

\* No Search call is running.
IdxRest ==
  /\ ijob = {}
  /\ qpc = "idle"
  /\ chromaHits = <<>>
  /\ esHits = <<>>
  /\ vecOut = <<>>
  /\ bmOut = <<>>

\* NewIndexer: nothing is indexed.
IdxInit ==
  /\ chromaIdx = {}
  /\ esIdx = {}
  /\ IdxRest

\* A context that was not created.
NoCtx == [parent |-> "", done |-> FALSE]

\* Retrieve was called, nothing was done yet.
RetRest ==
  /\ retPc = "call"
  /\ searchResults = <<>>
  /\ retResults = <<>>
  /\ retRet = <<>>
  /\ callerDone = FALSE
  /\ taskPc = "none"
  /\ taskCtx = NoCtx
  /\ taskArg = <<>>
  /\ taskOut = <<>>
  /\ taskElapsed = 0
  /\ taskCount = 0

\* NewHybridRetriever: no reranker is set.
RetIdle ==
  /\ retLimit = 0
  /\ reranker = FALSE
  /\ RetRest

\* Rerank was called, nothing was done yet.
LlmRest ==
  /\ lpc = "call"
  /\ lresponse = <<>>
  /\ lfailed = FALSE
  /\ lout = <<>>
  /\ lerr = FALSE

\* No Rerank call is made.
LlmIdle ==
  /\ ltexts = <<>>
  /\ LlmRest

\* pageChan, errorChan := c.Crawl(...); the three counts are 0.
CliInit ==
  /\ cliPages = 0
  /\ cliErrors = 0
  /\ cliPageClosed = FALSE
  /\ cliErrorClosed = FALSE
  /\ emittedPages = 0
  /\ emittedErrors = 0
  /\ pageCount = 0
  /\ errorCount = 0
  /\ indexedCount = 0
  /\ cliPc = "loop"

\* The chunk ids and document ids of the store.
StoreChunkIds == {"k1", "k2"}
StoreDocIds == {"d1", "d2"}

\* migrate: the chunks table is empty; no call is running.
StoreInit ==
  /\ chunksTable = [k \in StoreChunkIds |-> ""]
  /\ txTable = [k \in StoreChunkIds |-> ""]
  /\ sDoc = ""
  /\ sChunks = <<>>
  /\ sNext = 1
  /\ sPc = "idle"
  /\ sErr = FALSE
  /\ sBefore = [k \in StoreChunkIds |-> ""]

\* var req SearchRequest
NoRequest == [Query |-> "", Limit |-> 0]

\* The handler was entered, nothing was done yet.
SrvRest ==
  /\ hPc = "parse"
  /\ hReq = NoRequest
  /\ hStatus = 0
  /\ hHanded = {}

\* No request is made.
SrvIdle ==
  /\ hMethod = "GET"
  /\ hQuery = ""
  /\ hLimitText = ""
  /\ SrvRest

\* rateLimit was called for a domain without gate.
GateRest ==
  /\ gPc = "check"
  /\ gInterval = 0

\* No gate is created.
GateIdle ==
  /\ gRate = <<1, 10>>
  /\ GateRest

\* parseRobotsTxt was not called yet.
ParseRest ==
  /\ pPc = "call"
  /\ pRobots = NoRobots

\* No body is parsed.
ParseIdle ==
  /\ pBody = <<>>
  /\ ParseRest

\* Crawl was not called yet.
IntakeRest ==
  /\ inPc = "start"
  /\ inFrontier = <<>>
  /\ inFetched = {}
  /\ inLinks = 0

\* No run with written-out URLs.
IntakeIdle ==
  /\ inSeed = SeedRaw
  /\ IntakeRest

\* fetchAndParse was called and has not sent its request.
FetchRest ==
  /\ fPc = "do"
  /\ fOut = ""

\* The answer of a server that fetchAndParse turns into a page.
PlainResponse == [failed |-> FALSE, status |-> 200, html |-> TRUE, parses |-> TRUE]

\* No call of fetchAndParse is followed.
FetchIdle ==
  /\ fResp = PlainResponse
  /\ FetchRest

\* llmReranker.Rerank was called and has not tested its argument.
RrRest ==
  /\ rrPc = "call"
  /\ rrResponse = <<>>
  /\ rrTexts = <<>>
  /\ rrOut = <<>>
  /\ rrErr = FALSE

\* No call of llmReranker.Rerank is followed.
RrIdle ==
  /\ rrResults = <<>>
  /\ RrRest

\* A result that was not returned yet.
NoReturn == [results |-> {}, isNil |-> TRUE, err |-> FALSE]

\* Retrieve was called and Search has not begun.
HsRest ==
  /\ hsPc = "embed"
  /\ vectorGot = {}
  /\ bm25Got = {}
  /\ hsAsked = {}
  /\ hsOut = NoReturn
  /\ hsRet = NoReturn
  /\ hsTask = FALSE

\* No Retrieve call with the steps of Search is followed.
HsIdle ==
  /\ hsFail = "none"
  /\ hsVec = {}
  /\ hsBm = {}
  /\ hsReranker = FALSE
  /\ HsRest

\* The crawl engine, with the rate limiter and the robots cache left in
\* their state after NewCrawler.
Init ==
  /\ CrawlInit
  /\ RateInit
  /\ configured = <<1, 10>>
  /\ RobotsInit
  /\ NormRest
  /\ nraw = SeedRaw
  /\ FuseIdle
  /\ IdxInit
  /\ RetIdle
  /\ LlmIdle
  /\ CliInit
  /\ StoreInit
  /\ SrvIdle
  /\ GateIdle
  /\ ParseIdle
  /\ IntakeIdle
  /\ FetchIdle
  /\ RrIdle
  /\ HsIdle

\* ------------------------------------------------------------------------
\* The orchestrator goroutine of Crawl
\* ------------------------------------------------------------------------

\* urlChan <- urlWithDepth{url: startURL, depth: 0}
OrchSeed ==
  /\ opc = "seed"
  /\ Len(urlChan) < UrlChanCap
  /\ urlChan' = Append(urlChan, Target(startURL, 0))
  /\ opc' = "wait"
  /\ UNCHANGED nonCrawlVars
  /\ UNCHANGED crawlHist
  /\ UNCHANGED <<ctxDone, maxDepth, respectRobots, urlClosed, pageChan,
                 pageClosed, errorChan, errorClosed, visited, wpc, cur, links,
                 panicked, claimed, fetched>>

\* A wait that returns as soon as one worker has exited.
WgWaitReturnsEarly == \E w \in Workers : wpc[w] = "done"

\* wg.Wait() returns when the counter, raised once per worker before it
\* was started, is back to zero: every worker ran its deferred wg.Done().
WgWaitReturns == \A w \in Workers : wpc[w] = "done"

OrchWait ==
  /\ opc = "wait"
  /\ WgWaitReturns
  /\ opc' = "closeUrl"
  /\ UNCHANGED nonCrawlVars
  /\ UNCHANGED crawlHist
  /\ UNCHANGED <<ctxDone, maxDepth, respectRobots, urlChan, urlClosed,
                 pageChan, pageClosed, errorChan, errorClosed, visited, wpc,
                 cur, links, panicked, claimed, fetched>>

\* close(urlChan)
OrchCloseUrl ==
  /\ opc = "closeUrl"
  /\ urlClosed' = TRUE
  /\ opc' = "closeError"
  /\ UNCHANGED nonCrawlVars
  /\ UNCHANGED crawlHist
  /\ UNCHANGED <<ctxDone, maxDepth, respectRobots, urlChan, pageChan,
                 pageClosed, errorChan, errorClosed, visited, wpc, cur, links,
                 panicked, claimed, fetched>>

\* defer close(errorChan): deferred last, so it runs first
OrchCloseError ==
  /\ opc = "closeError"
  /\ errorClosed' = TRUE
  /\ opc' = "closePage"
  /\ UNCHANGED nonCrawlVars
  /\ UNCHANGED crawlHist
  /\ UNCHANGED <<ctxDone, maxDepth, respectRobots, urlChan, urlClosed,
                 pageChan, pageClosed, errorChan, visited, wpc, cur, links,
                 panicked, claimed, fetched>>

\* defer close(pageChan): deferred first, so it runs last
OrchClosePage ==
  /\ opc = "closePage"
  /\ pageClosed' = TRUE
  /\ opc' = "done"
  /\ UNCHANGED nonCrawlVars
  /\ UNCHANGED crawlHist
  /\ UNCHANGED <<ctxDone, maxDepth, respectRobots, urlChan, urlClosed,
                 pageChan, errorChan, errorClosed, visited, wpc, cur, links,
                 panicked, claimed, fetched>>

\* ------------------------------------------------------------------------
\* The worker goroutines
\* ------------------------------------------------------------------------

\* select { case <-ctx.Done(): return }
WorkerCtxDone(w) ==
  /\ wpc[w] = "select"
  /\ ctxDone
  /\ wpc' = [wpc EXCEPT ![w] = "done"]
  /\ UNCHANGED nonCrawlVars
  /\ UNCHANGED crawlHist
  /\ UNCHANGED <<ctxDone, maxDepth, respectRobots, urlChan, urlClosed,
                 pageChan, pageClosed, errorChan, errorClosed, visited, opc,
                 cur, links, panicked, claimed, fetched>>

\* select { case urlData, ok := <-urlChan: ... }: ready as soon as the
\* channel holds a target or is closed; Go's select picks among the ready
\* cases at random, so this case may be taken while ctx.Done() is ready too.
WorkerReceive(w) ==
  /\ wpc[w] = "select"
  /\ urlChan # <<>> \/ urlClosed
  /\ IF urlChan = <<>>
       THEN /\ wpc' = [wpc EXCEPT ![w] = "done"]
            /\ UNCHANGED <<urlChan, cur>>
       ELSE /\ cur' = [cur EXCEPT ![w] = Head(urlChan)]
            /\ urlChan' = Tail(urlChan)
            /\ wpc' = [wpc EXCEPT ![w] = "check"]
  /\ UNCHANGED nonCrawlVars
  /\ verdict' = [verdict EXCEPT ![w] = ""]
  /\ UNCHANGED <<pageEvents, errorEvents>>
  /\ UNCHANGED <<ctxDone, maxDepth, respectRobots, urlClosed, pageChan,
                 pageClosed, errorChan, errorClosed, visited, opc, links,
                 panicked, claimed, fetched>>

\* visitedMutex.RLock(); if visited[urlStr] { RUnlock; continue }; RUnlock
WorkerCheckVisited(w) ==
  /\ wpc[w] = "check"
  /\ IF cur[w].url \in visited
       THEN /\ wpc' = [wpc EXCEPT ![w] = "select"]
            /\ cur' = [cur EXCEPT ![w] = NoTarget]
       ELSE /\ wpc' = [wpc EXCEPT ![w] = "mark"]
            /\ UNCHANGED cur
  /\ UNCHANGED nonCrawlVars
  /\ UNCHANGED crawlHist
  /\ UNCHANGED <<ctxDone, maxDepth, respectRobots, urlChan, urlClosed,
                 pageChan, pageClosed, errorChan, errorClosed, visited, opc,
                 links, panicked, claimed, fetched>>

\* visitedMutex.Lock(); visited[urlStr] = true; visitedMutex.Unlock()
WorkerMarkVisited(w) ==
  /\ wpc[w] = "mark"
  /\ visited' = visited \cup {cur[w].url}
  /\ claimed' = [claimed EXCEPT ![cur[w].url] = @ + 1]
  /\ wpc' = [wpc EXCEPT ![w] = "robots"]
  /\ UNCHANGED nonCrawlVars
  /\ UNCHANGED crawlHist
  /\ UNCHANGED <<ctxDone, maxDepth, respectRobots, urlChan, urlClosed,
                 pageChan, pageClosed, errorChan, errorClosed, opc, cur, links,
                 panicked, fetched>>

\* A robots test that never skips.
SkipsNever(allowed) == FALSE

\* if c.config.RespectRobots && !c.canCrawl(url): canCrawl is called only
\* when RespectRobots is set, and `allowed` is its answer.
Skips(allowed) == respectRobots /\ ~allowed

\* if c.config.RespectRobots && !c.canCrawl(url) { continue }
WorkerRobots(w) ==
  /\ wpc[w] = "robots"
  /\ \E allowed \in BOOLEAN :
       /\ verdict' = [verdict EXCEPT ![w] =
                        IF ~respectRobots THEN ""
                        ELSE IF allowed THEN "allow" ELSE "deny"]
       /\ IF Skips(allowed)
            THEN /\ wpc' = [wpc EXCEPT ![w] = "select"]
                 /\ cur' = [cur EXCEPT ![w] = NoTarget]
            ELSE /\ wpc' = [wpc EXCEPT ![w] = "rate"]
                 /\ UNCHANGED cur
  /\ UNCHANGED nonCrawlVars
  /\ UNCHANGED <<pageEvents, errorEvents>>
  /\ UNCHANGED <<ctxDone, maxDepth, respectRobots, urlChan, urlClosed,
                 pageChan, pageClosed, errorChan, errorClosed, visited, opc,
                 links, panicked, claimed, fetched>>

\* c.rateLimit(url): returns after the domain's tick or the grace timeout
WorkerRateLimit(w) ==
  /\ wpc[w] = "rate"
  /\ wpc' = [wpc EXCEPT ![w] = "fetch"]
  /\ UNCHANGED nonCrawlVars
  /\ UNCHANGED crawlHist
  /\ UNCHANGED <<ctxDone, maxDepth, respectRobots, urlChan, urlClosed,
                 pageChan, pageClosed, errorChan, errorClosed, visited, opc,
                 cur, links, panicked, claimed, fetched>>

\* page, err := c.fetchAndParse(ctx, url): an error, or a page with its
\* normalized links; a request under a cancelled context fails.
WorkerFetch(w) ==
  /\ wpc[w] = "fetch"
  /\ fetched' = [fetched EXCEPT ![cur[w].url] = @ + 1]
  /\ \/ /\ wpc' = [wpc EXCEPT ![w] = "sendError"]
        /\ UNCHANGED links
     \/ /\ ~ctxDone
        /\ \E ls \in LinkLists : links' = [links EXCEPT ![w] = ls]
        /\ wpc' = [wpc EXCEPT ![w] = "sendPage"]
  /\ UNCHANGED nonCrawlVars
  /\ UNCHANGED crawlHist
  /\ UNCHANGED <<ctxDone, maxDepth, respectRobots, urlChan, urlClosed,
                 pageChan, pageClosed, errorChan, errorClosed, visited, opc,
                 cur, panicked, claimed>>

\* errorChan <- fmt.Errorf(...); continue
WorkerSendError(w) ==
  /\ wpc[w] = "sendError"
  /\ IF errorClosed
       THEN /\ panicked' = TRUE
            /\ UNCHANGED <<errorChan, errorEvents>>
       ELSE /\ Len(errorChan) < ErrorChanCap
            /\ errorChan' = Append(errorChan, cur[w].url)
            /\ errorEvents' = [errorEvents EXCEPT ![cur[w].url] = @ + 1]
            /\ UNCHANGED panicked
  /\ wpc' = [wpc EXCEPT ![w] = "select"]
  /\ cur' = [cur EXCEPT ![w] = NoTarget]
  /\ UNCHANGED nonCrawlVars
  /\ UNCHANGED <<verdict, pageEvents>>
  /\ UNCHANGED <<ctxDone, maxDepth, respectRobots, urlChan, urlClosed,
                 pageChan, pageClosed, errorClosed, visited, opc, links,
                 claimed, fetched>>

\* An enqueue test that lets the deepest level enqueue too.
EnqueuesLinksInclusive(depth) == depth <= maxDepth

\* if depth < maxDepth { for _, link := range page.Links { ... } }
EnqueuesLinks(depth) == depth < maxDepth

\* page.Depth = depth; pageChan <- page
WorkerSendPage(w) ==
  /\ wpc[w] = "sendPage"
  /\ IF pageClosed
       THEN /\ panicked' = TRUE
            /\ UNCHANGED <<pageChan, pageEvents>>
       ELSE /\ Len(pageChan) < PageChanCap
            /\ pageChan' = Append(pageChan, Page(cur[w].url, cur[w].depth, links[w]))
            /\ pageEvents' = [pageEvents EXCEPT ![cur[w].url] = @ + 1]
            /\ UNCHANGED panicked
  /\ IF EnqueuesLinks(cur[w].depth) /\ links[w] # <<>>
       THEN /\ wpc' = [wpc EXCEPT ![w] = "enqueue"]
            /\ UNCHANGED <<cur, links>>
       ELSE /\ wpc' = [wpc EXCEPT ![w] = "select"]
            /\ cur' = [cur EXCEPT ![w] = NoTarget]
            /\ links' = [links EXCEPT ![w] = <<>>]
  /\ UNCHANGED nonCrawlVars
  /\ UNCHANGED <<verdict, errorEvents>>
  /\ UNCHANGED <<ctxDone, maxDepth, respectRobots, urlChan, urlClosed,
                 pageClosed, errorChan, errorClosed, visited, opc, claimed,
                 fetched>>

\* select { case urlChan <- urlWithDepth{url: link, depth: depth + 1}: }
WorkerEnqueue(w) ==
  /\ wpc[w] = "enqueue"
  /\ IF urlClosed
       THEN /\ panicked' = TRUE
            /\ UNCHANGED urlChan
       ELSE /\ Len(urlChan) < UrlChanCap
            /\ urlChan' = Append(urlChan, Target(Head(links[w]), cur[w].depth + 1))
            /\ UNCHANGED panicked
  /\ IF Tail(links[w]) = <<>>
       THEN /\ wpc' = [wpc EXCEPT ![w] = "select"]
            /\ cur' = [cur EXCEPT ![w] = NoTarget]
       ELSE /\ UNCHANGED <<wpc, cur>>
  /\ links' = [links EXCEPT ![w] = Tail(@)]
  /\ UNCHANGED nonCrawlVars
  /\ UNCHANGED crawlHist
  /\ UNCHANGED <<ctxDone, maxDepth, respectRobots, urlClosed, pageChan,
                 pageClosed, errorChan, errorClosed, visited, opc, claimed,
                 fetched>>

\* select { case <-ctx.Done(): return } inside the link loop
WorkerEnqueueCtxDone(w) ==
  /\ wpc[w] = "enqueue"
  /\ ctxDone
  /\ wpc' = [wpc EXCEPT ![w] = "done"]
  /\ cur' = [cur EXCEPT ![w] = NoTarget]
  /\ links' = [links EXCEPT ![w] = <<>>]
  /\ UNCHANGED nonCrawlVars
  /\ UNCHANGED crawlHist
  /\ UNCHANGED <<ctxDone, maxDepth, respectRobots, urlChan, urlClosed,
                 pageChan, pageClosed, errorChan, errorClosed, visited, opc,
                 panicked, claimed, fetched>>

\* ------------------------------------------------------------------------
\* The environment: the caller's cancellation and the stream consumer
\* ------------------------------------------------------------------------

\* the caller cancels ctx (signal, deadline)
Cancel ==
  /\ ~ctxDone
  /\ ctxDone' = TRUE
  /\ UNCHANGED nonCrawlVars
  /\ UNCHANGED crawlHist
  /\ UNCHANGED <<maxDepth, respectRobots, urlChan, urlClosed, pageChan,
                 pageClosed, errorChan, errorClosed, visited, opc, wpc, cur,
                 links, panicked, claimed, fetched>>

\* the consumer receives one page from the page stream
ConsumePage ==
  /\ pageChan # <<>>
  /\ pageChan' = Tail(pageChan)
  /\ UNCHANGED nonCrawlVars
  /\ UNCHANGED crawlHist
  /\ UNCHANGED <<ctxDone, maxDepth, respectRobots, urlChan, urlClosed,
                 pageClosed, errorChan, errorClosed, visited, opc, wpc, cur,
                 links, panicked, claimed, fetched>>

\* the consumer receives one error from the error stream
ConsumeError ==
  /\ errorChan # <<>>
  /\ errorChan' = Tail(errorChan)
  /\ UNCHANGED nonCrawlVars
  /\ UNCHANGED crawlHist
  /\ UNCHANGED <<ctxDone, maxDepth, respectRobots, urlChan, urlClosed,
                 pageChan, pageClosed, errorClosed, visited, opc, wpc, cur,
                 links, panicked, claimed, fetched>>

\* ------------------------------------------------------------------------
\* The rate limiter: rateLimit, SetRateLimit and the passing of time
\* ------------------------------------------------------------------------

\* interval := time.Duration(1.0/c.config.RateLimit) * time.Second
\* if interval <= 0 { interval = time.Second }
\* The conversion of the quotient to time.Duration (an int64) truncates it
\* to a whole number before the multiplication, so the interval is a whole
\* number of seconds.  A rate <= 0 can be read here only when SetRateLimit
\* wrote it after the check at the top of rateLimit: a negative quotient
\* gives a non-positive interval, and 1.0/0 = +Inf converts to an int64 whose
\* product with time.Second is non-positive on the supported builds; both
\* are replaced by one second.
Interval(rate) ==
  IF rate[1] <= 0 THEN 1
  ELSE LET q == rate[2] \div rate[1] IN IF q <= 0 THEN 1 ELSE q

\* time.NewTicker(interval): the first tick is due after one interval; the
\* channel holds at most one undelivered tick.
NewTicker(interval) ==
  [interval |-> interval, left |-> interval, buf |-> 0, stopped |-> FALSE]

\* The tickers something still refers to: an entry of the map, or the
\* local variable of a call in flight.  The others are garbage.
Referenced(rl, pcs, rt) ==
  {rl[d] : d \in RLDomains} \cup
  {rt[w] : w \in {x \in RLCallers : pcs[x] \in {"store", "wait"}}}

Collect(tk, rl, pcs, rt) ==
  [i \in TickerIds |-> IF i \in Referenced(rl, pcs, rt) THEN tk[i] ELSE NoTicker]

FreeTicker ==
  CHOOSE i \in TickerIds :
    tickers[i] = NoTicker /\ \A j \in 1..(i - 1) : tickers[j] # NoTicker

\* The request of the call goes on to fetchAndParse.
Passed(d) == passedNow' = [passedNow EXCEPT ![d] = TRUE]

\* if c.config.RateLimit <= 0 { return }; domain := url.Host
RLEnter(w, d) ==
  /\ rpc[w] = "idle"
  /\ IF ~Positive(rateLimit)
       THEN /\ Passed(d)
            /\ UNCHANGED <<rpc, rdom>>
       ELSE /\ rpc' = [rpc EXCEPT ![w] = "lookup"]
            /\ rdom' = [rdom EXCEPT ![w] = d]
            /\ UNCHANGED passedNow
  /\ UNCHANGED <<configured, rateLimit, rateLimiters, tickers, rtick, rwaited,
                 srpc, setCalls>>
  /\ UNCHANGED nonRateVars

\* c.rateMutex.RLock(); ticker, exists := c.rateLimiters[domain]; RUnlock()
RLLookupLocal(w) ==
  /\ rpc[w] = "lookup"
  /\ IF rateLimiters[rdom[w]] # 0
       THEN /\ rtick' = [rtick EXCEPT ![w] = rateLimiters[rdom[w]]]
            /\ rpc' = [rpc EXCEPT ![w] = "wait"]
       ELSE /\ rpc' = [rpc EXCEPT ![w] = "create"]
            /\ UNCHANGED rtick
  /\ UNCHANGED <<configured, rateLimit, rateLimiters, tickers, rdom, rwaited,
                 srpc, setCalls, passedNow>>

RLLookup(w) ==
  /\ RLLookupLocal(w)
  /\ UNCHANGED nonRateVars

\* if !exists { interval := ...; ticker = time.NewTicker(interval)
RLCreateLocal(w) ==
  /\ rpc[w] = "create"
  /\ rtick' = [rtick EXCEPT ![w] = FreeTicker]
  /\ tickers' = [tickers EXCEPT ![FreeTicker] = NewTicker(Interval(rateLimit))]
  /\ rpc' = [rpc EXCEPT ![w] = "store"]
  /\ UNCHANGED <<configured, rateLimit, rateLimiters, rdom, rwaited, srpc, setCalls, passedNow>>

RLCreate(w) ==
  /\ RLCreateLocal(w)
  /\ UNCHANGED nonRateVars

\* c.rateMutex.Lock(); c.rateLimiters[domain] = ticker; Unlock() }
RLStoreLocal(w) ==
  /\ rpc[w] = "store"
  /\ rateLimiters' = [rateLimiters EXCEPT ![rdom[w]] = rtick[w]]
  /\ rpc' = [rpc EXCEPT ![w] = "wait"]
  /\ tickers' = Collect(tickers, rateLimiters', rpc', rtick)
  /\ UNCHANGED <<configured, rateLimit, rdom, rtick, rwaited, srpc, setCalls, passedNow>>

RLStore(w) ==
  /\ RLStoreLocal(w)
  /\ UNCHANGED nonRateVars

\* select { case <-ticker.C: }
TickReady(w) == rpc[w] = "wait" /\ tickers[rtick[w]].buf = 1

\* A select without the time.After case.
TimeoutNever(w) == FALSE

\* select { case <-time.After(5 * time.Second): }
TimeoutReady(w) == rpc[w] = "wait" /\ rwaited[w] >= GraceTimeout

RLReturn(w) ==
  /\ rpc' = [rpc EXCEPT ![w] = "idle"]
  /\ rdom' = [rdom EXCEPT ![w] = ""]
  /\ rtick' = [rtick EXCEPT ![w] = 0]
  /\ rwaited' = [rwaited EXCEPT ![w] = 0]
  /\ Passed(rdom[w])

RLWaitTickLocal(w) ==
  /\ TickReady(w)
  /\ RLReturn(w)
  /\ tickers' = Collect([tickers EXCEPT ![rtick[w]].buf = 0],
                        rateLimiters, rpc', rtick')
  /\ UNCHANGED <<configured, rateLimit, rateLimiters, srpc,
                 setCalls>>

RLWaitTick(w) ==
  /\ RLWaitTickLocal(w)
  /\ UNCHANGED nonRateVars

RLWaitTimeoutLocal(w) ==
  /\ TimeoutReady(w)
  /\ RLReturn(w)
  /\ tickers' = Collect(tickers, rateLimiters, rpc', rtick')
  /\ UNCHANGED <<configured, rateLimit, rateLimiters, srpc,
                 setCalls>>

RLWaitTimeout(w) ==
  /\ RLWaitTimeoutLocal(w)
  /\ UNCHANGED nonRateVars

\* c.config.RateLimit = rate
SetRateWrite(rate) ==
  /\ srpc = "idle"
  /\ setCalls < MaxSetRate
  /\ setCalls' = setCalls + 1
  /\ rateLimit' = rate
  /\ configured' = rate
  /\ srpc' = "clear"
  /\ UNCHANGED <<rateLimiters, tickers, rpc, rdom, rtick, rwaited, passedNow>>
  /\ UNCHANGED nonRateVars

\* c.rateMutex.Lock(); for each ticker of the map: ticker.Stop();
\* c.rateLimiters = make(map[string]*time.Ticker); Unlock()
SetRateClearLocal ==
  /\ srpc = "clear"
  /\ rateLimiters' = [d \in RLDomains |-> 0]
  /\ tickers' = Collect([i \in TickerIds |->
                           IF i \in {rateLimiters[d] : d \in RLDomains}
                             THEN [tickers[i] EXCEPT !.stopped = TRUE, !.left = 0]
                             ELSE tickers[i]],
                        rateLimiters', rpc, rtick)
  /\ srpc' = "idle"
  /\ UNCHANGED <<configured, rateLimit, rpc, rdom, rtick, rwaited, setCalls, passedNow>>

SetRateClear ==
  /\ SetRateClearLocal
  /\ UNCHANGED nonRateVars

\* One second passes: every running ticker counts down and delivers a tick
\* when its interval is over (dropped when one is still undelivered); every
\* call in its select has waited one second more.  A timer that is due is
\* served before more time passes.
AdvanceTicker(t) ==
  IF t = NoTicker \/ t.stopped THEN t
  ELSE IF t.left = 1 THEN [t EXCEPT !.left = t.interval, !.buf = 1]
  ELSE [t EXCEPT !.left = @ - 1]

TickLocal ==
  /\ \A w \in RLCallers : ~TimeoutReady(w)
  /\ tickers' = [i \in TickerIds |-> AdvanceTicker(tickers[i])]
  /\ rwaited' = [w \in RLCallers |->
                   IF rpc[w] = "wait" /\ rwaited[w] <= GraceTimeout
                     THEN rwaited[w] + 1 ELSE rwaited[w]]
  /\ passedNow' = [d \in RLDomains |-> FALSE]
  /\ UNCHANGED <<configured, rateLimit, rateLimiters, rpc, rdom, rtick,
                 srpc, setCalls>>

Tick ==
  /\ TickLocal
  /\ UNCHANGED nonRateVars

RLStep(w) ==
  \/ \E d \in RLDomains : RLEnter(w, d)
  \/ RLLookup(w)
  \/ RLCreate(w)
  \/ RLStore(w)
  \/ RLWaitTick(w)
  \/ RLWaitTimeout(w)

SetRateStep ==
  \/ \E rate \in Rates : SetRateWrite(rate)
  \/ SetRateClear

RateNext ==
  \/ \E w \in RLCallers : RLStep(w)
  \/ SetRateStep
  \/ Tick

\* ------------------------------------------------------------------------
\* The robots cache: canCrawl, GetRobots, parseRobotsTxt, Robots.CanCrawl
\* ------------------------------------------------------------------------

\* Strings that the code inspects character by character are sequences of
\* one-character strings.  The url.Path values of the calls:
\* "/", "/a", "/ab" and "/b".
RobotsPaths == {<<"/">>, <<"/", "a">>, <<"/", "a", "b">>, <<"/", "b">>}

\* strconv.Atoi(text), on the texts of the model: the delay of a
\* Crawl-delay line and the limit of a search request (a JSON number
\* decodes the same way and any other JSON value for limit is a decode
\* error).
Atoi(text) ==
  CASE text = "-5" -> [err |-> FALSE, value |-> 0 - 5]
    [] text = "0" -> [err |-> FALSE, value |-> 0]
    [] text = "1" -> [err |-> FALSE, value |-> 1]
    [] text = "2" -> [err |-> FALSE, value |-> 2]
    [] text = "7" -> [err |-> FALSE, value |-> 7]
    [] text = "100" -> [err |-> FALSE, value |-> 100]
    [] text = "101" -> [err |-> FALSE, value |-> 101]
    [] text = "5000" -> [err |-> FALSE, value |-> 5000]
    [] OTHER -> [err |-> TRUE, value |-> 0]

\* The lines of a robots.txt body, after TrimSpace and the lower-cased
\* prefix tests of parseRobotsTxt: a User-agent line with its agent, a
\* Disallow line with its path (possibly empty), a Crawl-delay line with
\* the text of its value, any other line.
UALine(a) == [key |-> "user-agent", agent |-> a, path |-> <<>>, delay |-> ""]
DisLine(p) == [key |-> "disallow", agent |-> "", path |-> p, delay |-> ""]
DelayLine(n) == [key |-> "crawl-delay", agent |-> "", path |-> <<>>, delay |-> n]
OtherLine == [key |-> "allow", agent |-> "", path |-> <<>>, delay |-> ""]

RobotsLines ==
  {UALine("*"), UALine("otherbot"), DelayLine("2")} \cup
  {DisLine(p) : p \in {<<>>, <<"/">>, <<"/", "a">>, <<"/", "*">>}}

\* The bodies a server sends: up to two lines.
RobotsBodies ==
  {<<>>} \cup {<<l>> : l \in RobotsLines}
         \cup {<<l, m>> : l \in RobotsLines, m \in RobotsLines}

\* What client.Get(robotsURL) and the reading of the body give: a transport
\* failure, or a response with a status, a body, and possibly an error of
\* the scanner while the body is read.
RobotsResponses ==
  {[failed |-> TRUE, status |-> 0, body |-> <<>>, readErr |-> FALSE]} \cup
  {[failed |-> FALSE, status |-> st, body |-> b, readErr |-> e] :
     st \in {200, 404}, b \in RobotsBodies, e \in BOOLEAN}

\* A section that every agent takes as its own.
MatchesAnyAgent(currentUserAgent, userAgent) == TRUE

\* inUserAgentSection = (currentUserAgent == "*" || currentUserAgent == userAgent)
MatchesAgent(currentUserAgent, userAgent) ==
  currentUserAgent = "*" \/ currentUserAgent = userAgent

\* The scanner loop of parseRobotsTxt over the lines that were read.
RECURSIVE ParseLines(_, _, _)
ParseLines(lines, robots, inUserAgentSection) ==
  IF lines = <<>> THEN robots
  ELSE LET line == Head(lines)
           rest == Tail(lines)
       IN IF line.key = "user-agent"
            THEN ParseLines(rest, robots,
                            MatchesAgent(line.agent, robots.UserAgent))
          ELSE IF ~inUserAgentSection
            THEN ParseLines(rest, robots, inUserAgentSection)
          ELSE IF line.key = "disallow"
            THEN IF line.path # <<>>
                   THEN ParseLines(rest,
                          [robots EXCEPT !.Disallow = Append(@, line.path)],
                          inUserAgentSection)
                   ELSE ParseLines(rest, robots, inUserAgentSection)
          ELSE IF line.key = "crawl-delay"
            THEN IF ~Atoi(line.delay).err
                   THEN ParseLines(rest,
                          [robots EXCEPT !.CrawlDelay = Atoi(line.delay).value],
                          inUserAgentSection)
                   ELSE ParseLines(rest, robots, inUserAgentSection)
          ELSE ParseLines(rest, robots, inUserAgentSection)

\* parseRobotsTxt(body, userAgent): return robots, scanner.Err()
parseRobotsTxt(resp, userAgent) ==
  [robots |-> ParseLines(resp.body, Permissive(userAgent), FALSE),
   err |-> resp.readErr]

\* A GetRobots that hands out what was parsed before the scanner failed.
OnParseErrorKeep(parsed, userAgent) == parsed

\* if err != nil { return &Robots{... Disallow: []string{}, CrawlDelay: 0}, nil }
OnParseError(parsed, userAgent) == Permissive(userAgent)

\* A prefix test that asks for the whole string.
HasPrefixWhole(str, prefix) == str = prefix

\* strings.HasPrefix(s, prefix)
HasPrefix(str, prefix) ==
  /\ Len(str) >= Len(prefix)
  /\ \A i \in 1..Len(prefix) : str[i] = prefix[i]

\* for _, disallowPath := range r.Disallow { if HasPrefix { return false } }
RECURSIVE CanCrawlFrom(_, _)
CanCrawlFrom(disallow, urlPath) ==
  IF disallow = <<>> THEN TRUE
  ELSE IF HasPrefix(urlPath, Head(disallow)) THEN FALSE
  ELSE CanCrawlFrom(Tail(disallow), urlPath)

\* Robots.CanCrawl(urlPath)
CanCrawl(robots, urlPath) == CanCrawlFrom(robots.Disallow, urlPath)

\* GetRobots returns `out` to the call.
GetRobotsReturns(c, out) ==
  /\ gout' = [gout EXCEPT ![c] = out]
  /\ completed' = [completed EXCEPT ![gdom[c]] = TRUE]
  /\ gpc' = [gpc EXCEPT ![c] = "canCrawl"]

\* canCrawl(url) is called: c.robotsCache.GetRobots(c.client, url.Host, ...)
RCEnter(c, d, p) ==
  /\ gpc[c] = "idle"
  /\ gpc' = [gpc EXCEPT ![c] = "lookup"]
  /\ gdom' = [gdom EXCEPT ![c] = d]
  /\ gpath' = [gpath EXCEPT ![c] = p]
  /\ gout' = [gout EXCEPT ![c] = NoOut]
  /\ glater' = [glater EXCEPT ![c] = completed[d]]
  /\ UNCHANGED <<robotsCache, gallowed, completed>>
  /\ UNCHANGED nonRobotsVars

\* rc.mutex.RLock(); if robots, exists := rc.cache[domain]; exists { return }
RCLookup(c) ==
  /\ gpc[c] = "lookup"
  /\ IF robotsCache[gdom[c]] # NoRobots
       THEN GetRobotsReturns(c, [robots |-> robotsCache[gdom[c]], err |-> FALSE,
                                 how |-> "cached", status |-> 0])
       ELSE /\ gpc' = [gpc EXCEPT ![c] = "get"]
            /\ UNCHANGED <<gout, completed>>
  /\ UNCHANGED <<robotsCache, gdom, gpath, gallowed, glater>>
  /\ UNCHANGED nonRobotsVars

\* resp, err := client.Get(robotsURL); robots, err := parseRobotsTxt(...)
RCGet(c) ==
  /\ gpc[c] = "get"
  /\ \E resp \in RobotsResponses :
       LET parsed == parseRobotsTxt(resp, UserAgent)
       IN IF resp.failed
            THEN GetRobotsReturns(c, [robots |-> Permissive(UserAgent),
                                      err |-> FALSE, how |-> "fetchFailed",
                                      status |-> 0])
          ELSE IF parsed.err
            THEN GetRobotsReturns(c, [robots |-> OnParseError(parsed.robots, UserAgent),
                                      err |-> FALSE, how |-> "parseFailed",
                                      status |-> resp.status])
          ELSE /\ gout' = [gout EXCEPT ![c] =
                             [robots |-> parsed.robots, err |-> FALSE,
                              how |-> "parsed", status |-> resp.status]]
               /\ gpc' = [gpc EXCEPT ![c] = "store"]
               /\ UNCHANGED completed
  /\ UNCHANGED <<robotsCache, gdom, gpath, gallowed, glater>>
  /\ UNCHANGED nonRobotsVars

\* rc.mutex.Lock(); rc.cache[domain] = robots; Unlock(); return robots, nil
RCStore(c) ==
  /\ gpc[c] = "store"
  /\ robotsCache' = [robotsCache EXCEPT ![gdom[c]] = gout[c].robots]
  /\ GetRobotsReturns(c, gout[c])
  /\ UNCHANGED <<gdom, gpath, gallowed, glater>>
  /\ UNCHANGED nonRobotsVars

\* if err != nil { return true }; return robots.CanCrawl(url.Path)
RCCanCrawl(c) ==
  /\ gpc[c] = "canCrawl"
  /\ gallowed' = [gallowed EXCEPT ![c] =
                    IF gout[c].err THEN TRUE
                    ELSE CanCrawl(gout[c].robots, gpath[c])]
  /\ gpc' = [gpc EXCEPT ![c] = "idle"]
  /\ UNCHANGED <<robotsCache, gdom, gpath, gout, glater, completed>>
  /\ UNCHANGED nonRobotsVars

RCStep(c) ==
  \/ \E d \in RLDomains, p \in RobotsPaths : RCEnter(c, d, p)
  \/ RCLookup(c)
  \/ RCGet(c)
  \/ RCStore(c)
  \/ RCCanCrawl(c)

RobotsNext == \E c \in RLCallers : RCStep(c)

\* ------------------------------------------------------------------------
\* The URL normalizer: Normalize and IsValid (net/url Parse and String)
\* ------------------------------------------------------------------------

\* A URL string is held as its components in the order they are written:
\* scheme "://" name [":" port] path ["?" query] ["#" fragment].  The path
\* is a sequence of characters, the query a sequence of key=value pairs.
Pair(k, v) == [k |-> k, v |-> v]

NormSchemes == {"http", "https", "HTTP", "ftp"}
NormHosts == {"", "a.test", "A.Test"}
NormPorts == {"", "80", "443", "8080"}
NormPaths == {
  <<>>, <<"/">>, <<"/", "a">>, <<"/", "a", "/">>, <<"/", "a", "/", "/">>,
  <<"/", "x", ".", "p", "d", "f">>, <<"/", "x", ".", "P", "D", "F">>,
  <<"/", "a", "d", "m", "i", "n">>,
  <<"/", "a", "/", "a", "d", "m", "i", "n">>,
  <<"/", "a", "d", "m", "i", "n", "/", "a">> }
NormQueries ==
  {<<>>, <<Pair("b", "1")>>, <<Pair("b", "1"), Pair("a", "2")>>,
   <<Pair("a", "2"), Pair("b", "1")>>, <<Pair("download", "1")>>,
   <<Pair("b", "1"), Pair("download", "1")>>}
NormFragments == {"", "top"}

RawURLs ==
  {[scheme |-> sc, name |-> h, port |-> po, path |-> pa, qmark |-> q # <<>>,
    query |-> q, fragment |-> f] :
     sc \in NormSchemes, h \in NormHosts, po \in NormPorts, pa \in NormPaths,
     q \in NormQueries, f \in NormFragments}

\* strings.ToLower on the strings of the model.
ToLower(str) ==
  CASE str = "HTTP" -> "http"
    [] str = "A.Test" -> "a.test"
    [] str = "P" -> "p"
    [] str = "D" -> "d"
    [] str = "F" -> "f"
    [] OTHER -> str

ToLowerChars(path) == [i \in 1..Len(path) |-> ToLower(path[i])]

\* url.Parse(rawURL): the scheme is lower-cased, the host keeps its case,
\* a "?" without query sets ForceQuery.
Parse(raw) ==
  [Scheme |-> ToLower(raw.scheme),
   Host |-> [name |-> raw.name, port |-> IF raw.name = "" THEN "" ELSE raw.port],
   Path |-> raw.path,
   ForceQuery |-> raw.qmark /\ raw.query = <<>>,
   RawQuery |-> raw.query,
   Fragment |-> raw.fragment]

\* URL.String(): "?" is written when ForceQuery is set or RawQuery is not
\* empty, "#" when the fragment is not empty.
String(u) ==
  [scheme |-> u.Scheme, name |-> u.Host.name, port |-> u.Host.port,
   path |-> u.Path, qmark |-> u.ForceQuery \/ u.RawQuery # <<>>,
   query |-> u.RawQuery, fragment |-> u.Fragment]

\* The keys of the model in the order of sort.Strings.
KeyRank(k) ==
  CASE k = "a" -> 1 [] k = "b" -> 2 [] k = "download" -> 3 [] OTHER -> 4

\* u.Query().Encode(): the pairs sorted by key, the values of one key in
\* their order of appearance.
RECURSIVE InsertPair(_, _)
InsertPair(sorted, pair) ==
  IF sorted = <<>> THEN <<pair>>
  ELSE IF KeyRank(pair.k) < KeyRank(Head(sorted).k)
    THEN <<pair>> \o sorted
  ELSE <<Head(sorted)>> \o InsertPair(Tail(sorted), pair)

RECURSIVE Encode(_)
Encode(query) ==
  IF query = <<>> THEN <<>>
  ELSE InsertPair(Encode(SubSeq(query, 1, Len(query) - 1)), query[Len(query)])

\* strings.TrimSuffix(u.Path, "/"): one trailing slash is removed.
TrimSuffix(path) ==
  IF Len(path) >= 1 /\ path[Len(path)] = "/"
    THEN SubSeq(path, 1, Len(path) - 1)
    ELSE path

\* Normalize(rawURL, baseURL) for an absolute rawURL without dot segments,
\* which baseURL.ResolveReference returns unchanged.  The scheme is
\* rewritten before the ports are tested.
Normalize(raw) ==
  LET u0 == Parse(raw)
      u1 == [u0 EXCEPT !.Scheme = IF @ = "http" THEN "https" ELSE @]
      u2 == [u1 EXCEPT !.Host.name = ToLower(@)]
      u3 == IF u2.Scheme = "https" /\ u2.Host.port = "443"
              THEN [u2 EXCEPT !.Host.port = ""]
            ELSE IF u2.Scheme = "http" /\ u2.Host.port = "80"
              THEN [u2 EXCEPT !.Host.port = ""]
            ELSE u2
      u4 == [u3 EXCEPT !.Path = TrimSuffix(@)]
      u5 == [u4 EXCEPT !.Path = IF @ = <<>> THEN <<"/">> ELSE @]
      u6 == [u5 EXCEPT !.Fragment = ""]
  IN [u6 EXCEPT !.RawQuery = Encode(@)]

\* strings.HasSuffix(s, suffix)
HasSuffix(str, suffix) ==
  /\ Len(str) >= Len(suffix)
  /\ \A i \in 1..Len(suffix) : str[Len(str) - Len(suffix) + i] = suffix[i]

skipExtensions == <<
  <<".", "p", "d", "f">>, <<".", "d", "o", "c">>,
  <<".", "d", "o", "c", "x">>, <<".", "x", "l", "s">>,
  <<".", "x", "l", "s", "x">>, <<".", "p", "p", "t">>,
  <<".", "p", "p", "t", "x">>, <<".", "z", "i", "p">>,
  <<".", "r", "a", "r">>, <<".", "t", "a", "r">>, <<".", "g", "z">>,
  <<".", "j", "p", "g">>, <<".", "j", "p", "e", "g">>,
  <<".", "p", "n", "g">>, <<".", "g", "i", "f">>, <<".", "s", "v", "g">>,
  <<".", "i", "c", "o">>, <<".", "c", "s", "s">>, <<".", "j", "s">>,
  <<".", "x", "m", "l">>, <<".", "j", "s", "o", "n">> >>

skipPaths == <<
  <<"/", "a", "d", "m", "i", "n">>, <<"/", "l", "o", "g", "i", "n">>,
  <<"/", "l", "o", "g", "o", "u", "t">>, <<"/", "a", "p", "i", "/">>,
  <<"/", "s", "t", "a", "t", "i", "c", "/">>,
  <<"/", "a", "s", "s", "e", "t", "s", "/">>,
  <<"/", "i", "m", "a", "g", "e", "s", "/">>, <<"/", "c", "s", "s", "/">>,
  <<"/", "j", "s", "/">> >>

\* query.Get(key): the first value of the key, or "".
RECURSIVE QueryGet(_, _)
QueryGet(query, key) ==
  IF query = <<>> THEN ""
  ELSE IF Head(query).k = key THEN Head(query).v
  ELSE QueryGet(Tail(query), key)

\* A path test that skips nothing.
SkipsPathNever(path) == FALSE

\* for _, skipPath := range skipPaths { if strings.HasPrefix(u.Path, skipPath) }
SkipsPath(path) ==
  \E i \in 1..Len(skipPaths) : HasPrefix(path, skipPaths[i])

\* IsValid(u)
IsValid(u) ==
  IF u.Scheme = "" THEN FALSE
  ELSE IF u.Scheme # "http" /\ u.Scheme # "https" THEN FALSE
  ELSE IF u.Host.name = "" THEN FALSE
  ELSE IF \E i \in 1..Len(skipExtensions) :
            HasSuffix(ToLowerChars(u.Path), skipExtensions[i]) THEN FALSE
  ELSE IF SkipsPath(u.Path) THEN FALSE
  ELSE IF \/ QueryGet(u.RawQuery, "download") # ""
          \/ QueryGet(u.RawQuery, "attachment") # ""
          \/ QueryGet(u.RawQuery, "format") = "pdf" THEN FALSE
  ELSE TRUE

NormInit ==
  /\ nraw \in RawURLs
  /\ NormRest

\* normalized, err := Normalize(link.String(), targetURL)
NormalizeOnce ==
  /\ npc = "input"
  /\ nonce' = String(Normalize(nraw))
  /\ npc' = "once"
  /\ UNCHANGED <<nraw, ntwice, nvalid>>
  /\ UNCHANGED nonNormVars

\* Normalize applied to the string of a normalized URL
NormalizeTwice ==
  /\ npc = "once"
  /\ ntwice' = String(Normalize(nonce))
  /\ npc' = "twice"
  /\ UNCHANGED <<nraw, nonce, nvalid>>
  /\ UNCHANGED nonNormVars

\* IsValid applied to the parsed URL
Validate ==
  /\ npc = "twice"
  /\ nvalid' = IsValid(Parse(nraw))
  /\ npc' = "valid"
  /\ UNCHANGED <<nraw, nonce, ntwice>>
  /\ UNCHANGED nonNormVars

NormNext ==
  \/ NormalizeOnce
  \/ NormalizeTwice
  \/ Validate

\* ------------------------------------------------------------------------
\* Result fusion: hybridIndexer.combineResults
\* ------------------------------------------------------------------------

\* Scores are finite numbers.  A backend score is a number of tenths
\* (Scores: 0.6 and 0.9), held as an integer with ScoreUnit units to the
\* tenth, so that the weights 0.7 and 0.3 are the integers VectorWeight and
\* BM25Weight over WeightUnit and every product of the model is exact.
MaxResults == 2
ScoreUnit == 100000
WeightUnit == 10
VectorWeight == 7
BM25Weight == 3

ChunkIDs == {"c1", "c2", "c3"}
Scores == {6, 9}
FuseLimits == {0, 1, 2, 3}

SearchResult(id, score) == [ChunkID |-> id, Score |-> score]

BackendResults == {SearchResult(id, sc * ScoreUnit) : id \in ChunkIDs, sc \in Scores}

BackendLists == UNION {[1..n -> BackendResults] : n \in 0..MaxResults}

\* A product that ignores the weight.
Unweighted(x, w) == x

\* x * (w / WeightUnit)
Weighted(x, w) == (x * w) \div WeightUnit

\* A blend that adds the incoming share to the whole existing score.
BlendSum(existing, incoming) == existing + Weighted(incoming, BM25Weight)

\* existing.Score = (existing.Score*0.7 + result.Score*0.3)
BlendBM25(existing, incoming) ==
  Weighted(existing, VectorWeight) + Weighted(incoming, BM25Weight)

\* resultMap[key] = score
MapPut(m, key, score) ==
  [k \in (DOMAIN m) \cup {key} |-> IF k = key THEN score ELSE m[k]]

\* for _, result := range vectorResults { ... }
RECURSIVE AddVector(_, _)
AddVector(m, results) ==
  IF results = <<>> THEN m
  ELSE LET result == Head(results)
           key == result.ChunkID
       IN AddVector(
            IF key \in DOMAIN m
              THEN MapPut(m, key, Weighted(m[key], BM25Weight)
                                    + Weighted(result.Score, VectorWeight))
              ELSE MapPut(m, key, Weighted(result.Score, VectorWeight)),
            Tail(results))

\* for _, result := range bm25Results { ... }
RECURSIVE AddBM25(_, _)
AddBM25(m, results) ==
  IF results = <<>> THEN m
  ELSE LET result == Head(results)
           key == result.ChunkID
       IN AddBM25(
            IF key \in DOMAIN m
              THEN MapPut(m, key, BlendBM25(m[key], result.Score))
              ELSE MapPut(m, key, Weighted(result.Score, BM25Weight)),
            Tail(results))

\* The orders in which range may visit the keys of a map.
RangeOrders(m) ==
  {o \in [1..Cardinality(DOMAIN m) -> DOMAIN m] :
     \A i, j \in DOMAIN o : o[i] = o[j] => i = j}

\* A comparison that never swaps.
SwapNever(a, b) == FALSE

\* if combinedResults[i].Score < combinedResults[j].Score
SwapNeeded(a, b) == a.Score < b.Score

\* combinedResults[i], combinedResults[j] = combinedResults[j], combinedResults[i]
Swap(list, i, j) == [list EXCEPT ![i] = list[j], ![j] = list[i]]

\* for i := 0; ... { for j := i + 1; ... { ... } }, positions counted from 1
RECURSIVE SortFrom(_, _, _)
SortFrom(list, i, j) ==
  IF i > Len(list) THEN list
  ELSE IF j > Len(list) THEN SortFrom(list, i + 1, i + 2)
  ELSE SortFrom(IF SwapNeeded(list[i], list[j]) THEN Swap(list, i, j) ELSE list,
                i, j + 1)

\* if len(combinedResults) > limit { return combinedResults[:limit] }
TopResults(list, n) ==
  IF Len(list) > n THEN SubSeq(list, 1, n) ELSE list

FuseInit ==
  /\ vectorResults \in BackendLists
  /\ bm25Results \in BackendLists
  /\ limit \in FuseLimits
  /\ FuseRest

\* The loop over vectorResults
AddVectorResults ==
  /\ fpc = "vector"
  /\ resultMap' = AddVector(resultMap, vectorResults)
  /\ fpc' = "bm25"
  /\ UNCHANGED <<vectorResults, bm25Results, limit, combinedResults, fret>>
  /\ UNCHANGED nonFuseVars

\* The loop over bm25Results
AddBM25Results ==
  /\ fpc = "bm25"
  /\ resultMap' = AddBM25(resultMap, bm25Results)
  /\ fpc' = "collect"
  /\ UNCHANGED <<vectorResults, bm25Results, limit, combinedResults, fret>>
  /\ UNCHANGED nonFuseVars

\* for _, result := range resultMap { combinedResults = append(...) }
CollectResults ==
  /\ fpc = "collect"
  /\ \E order \in RangeOrders(resultMap) :
       combinedResults' =
         [i \in DOMAIN order |-> SearchResult(order[i], resultMap[order[i]])]
  /\ fpc' = "sort"
  /\ UNCHANGED <<vectorResults, bm25Results, limit, resultMap, fret>>
  /\ UNCHANGED nonFuseVars

\* The sort loops
SortResults ==
  /\ fpc = "sort"
  /\ combinedResults' = SortFrom(combinedResults, 1, 2)
  /\ fpc' = "return"
  /\ UNCHANGED <<vectorResults, bm25Results, limit, resultMap, fret>>
  /\ UNCHANGED nonFuseVars

\* The return statements
ReturnResults ==
  /\ fpc = "return"
  /\ fret' = TopResults(combinedResults, limit)
  /\ fpc' = "returned"
  /\ UNCHANGED <<vectorResults, bm25Results, limit, resultMap, combinedResults>>
  /\ UNCHANGED nonFuseVars

FuseNext ==
  \/ AddVectorResults
  \/ AddBM25Results
  \/ CollectResults
  \/ SortResults
  \/ ReturnResults

\* ------------------------------------------------------------------------
\* The hybrid indexer: Index, searchChroma, searchElasticsearch
\* ------------------------------------------------------------------------

\* chunk.ID values: fmt.Sprintf("%x", hash[:8]) of the chunk.
ChunkHashes == {"3f9a", "b07c", "e1d2"}

\* The number of results asked from each backend.
QueryLimit == 2

\* fmt.Sprintf("chunk_%d", j) for the 0-based position j
ChunkName(j) ==
  CASE j = 0 -> "chunk_0"
    [] j = 1 -> "chunk_1"
    [] j = 2 -> "chunk_2"
    [] OTHER -> "chunk_n"

\* The ranked lists a backend may answer with: up to n different stored
\* chunks in any order.
RankedHits(stored, n) ==
  UNION {{h \in [1..k -> stored] : \A i, j \in 1..k : h[i] = h[j] => i = j} :
           k \in 0..n}

\* indexInChroma: collection.Add stores every chunk under ids[j] = chunk.ID
\* with the metadata chunk_id = chunk.ID, or fails.
IndexInChroma(chunks) ==
  /\ qpc = "idle"
  /\ ijob = {}
  /\ \E ok \in BOOLEAN :
       IF ok
         THEN /\ chromaIdx' = chromaIdx \cup chunks
              /\ ijob' = chunks
         ELSE UNCHANGED <<chromaIdx, ijob>>
  /\ UNCHANGED <<esIdx, qpc, chromaHits, esHits, vecOut, bmOut>>
  /\ UNCHANGED nonIdxVars

\* indexInElasticsearch: one PUT per chunk with ChunkID = chunk.ID; the
\* loop returns at the first failure.
IndexInElasticsearch ==
  /\ ijob # {}
  /\ \E done \in SUBSET ijob : esIdx' = esIdx \cup done
  /\ ijob' = {}
  /\ UNCHANGED <<chromaIdx, qpc, chromaHits, esHits, vecOut, bmOut>>
  /\ UNCHANGED nonIdxVars

\* searchChroma: the ChunkID of result j is fmt.Sprintf("chunk_%d", j).
SearchChroma ==
  /\ qpc = "idle"
  /\ ijob = {}
  /\ \E hits \in RankedHits(chromaIdx, QueryLimit) :
       /\ chromaHits' = hits
       /\ vecOut' = [j \in DOMAIN hits |-> ChunkName(j - 1)]
  /\ qpc' = "es"
  /\ UNCHANGED <<chromaIdx, esIdx, ijob, esHits, bmOut>>
  /\ UNCHANGED nonIdxVars

\* searchElasticsearch: the ChunkID of a result is hit.Source.ChunkID.
SearchElasticsearch ==
  /\ qpc = "es"
  /\ \E hits \in RankedHits(esIdx, QueryLimit) :
       /\ esHits' = hits
       /\ bmOut' = [j \in DOMAIN hits |-> hits[j]]
  /\ qpc' = "combine"
  /\ UNCHANGED <<chromaIdx, esIdx, ijob, chromaHits, vecOut>>
  /\ UNCHANGED nonIdxVars

\* Search returns combineResults(vectorResults, bm25Results, limit).
SearchReturn ==
  /\ qpc = "combine"
  /\ qpc' = "idle"
  /\ chromaHits' = <<>>
  /\ esHits' = <<>>
  /\ vecOut' = <<>>
  /\ bmOut' = <<>>
  /\ UNCHANGED <<chromaIdx, esIdx, ijob>>
  /\ UNCHANGED nonIdxVars

IdxNext ==
  \/ \E chunks \in (SUBSET ChunkHashes) \ {{}} : IndexInChroma(chunks)
  \/ IndexInElasticsearch
  \/ SearchChroma
  \/ SearchElasticsearch
  \/ SearchReturn

\* ------------------------------------------------------------------------
\* The retriever: hybridRetriever.Retrieve and its background rerank task
\* ------------------------------------------------------------------------

RetLimits == {0, 1, 2}

\* context.WithTimeout(context.Background(), 30*time.Second), in seconds
RerankTimeout == 30

\* A task context derived from the caller's context.
RerankParentCaller == "caller"

\* context.Background()
RerankParent == "background"

\* A list returned whole.
TruncatedNot(list, n) == list

\* if len(results) > limit { results = results[:limit] }
Truncated(list, n) ==
  IF Len(list) > n THEN SubSeq(list, 1, n) ELSE list

\* The n results of a search, named by their rank.
Hits(n) == [i \in 1..n |-> i]

\* The timer of rerankCtx has fired.
DeadlineReached(elapsed) == elapsed >= RerankTimeout

\* The orders in which llmReranker.Rerank may return the results it got.
Reorderings(list) ==
  {o \in [DOMAIN list -> {list[j] : j \in DOMAIN list}] :
     \A i, j \in DOMAIN o : o[i] = o[j] => i = j}

RetInit ==
  /\ retLimit \in RetLimits
  /\ reranker \in BOOLEAN
  /\ RetRest

\* results, err := r.config.Indexer.Search(ctx, query, limit*2)
RetrieveSearch ==
  /\ retPc = "call"
  /\ \E err \in BOOLEAN : \E n \in 0..(retLimit * 2) :
       IF err
         THEN /\ retPc' = "failed"
              /\ UNCHANGED <<searchResults, retResults>>
         ELSE /\ retPc' = "check"
              /\ searchResults' = Hits(n)
              /\ retResults' = Hits(n)
  /\ UNCHANGED <<retLimit, reranker, retRet, callerDone, taskPc, taskCtx,
                 taskArg, taskOut, taskElapsed, taskCount>>
  /\ UNCHANGED nonRetVars

\* if r.reranker != nil && len(results) > 0 { go func() { ... }() }
RetrieveSpawn ==
  /\ retPc = "check"
  /\ IF reranker /\ Len(retResults) > 0
       THEN /\ taskPc' = "start"
            /\ taskCount' = taskCount + 1
       ELSE UNCHANGED <<taskPc, taskCount>>
  /\ retPc' = "truncate"
  /\ UNCHANGED <<retLimit, reranker, searchResults, retResults, retRet,
                 callerDone, taskCtx, taskArg, taskOut, taskElapsed>>
  /\ UNCHANGED nonRetVars

\* if len(results) > limit { results = results[:limit] }; return results, nil
RetrieveTruncate ==
  /\ retPc = "truncate"
  /\ retResults' = Truncated(retResults, retLimit)
  /\ retRet' = retResults'
  /\ retPc' = "returned"
  /\ UNCHANGED <<retLimit, reranker, searchResults, callerDone, taskPc,
                 taskCtx, taskArg, taskOut, taskElapsed, taskCount>>
  /\ UNCHANGED nonRetVars

RetrieveStep ==
  \/ RetrieveSearch
  \/ RetrieveSpawn
  \/ RetrieveTruncate

\* The caller cancels the context it gave to Retrieve; every context
\* derived from it is done.
CancelCaller ==
  /\ ~callerDone
  /\ callerDone' = TRUE
  /\ taskCtx' = IF taskCtx.parent = RerankParentCaller
                  THEN [taskCtx EXCEPT !.done = TRUE] ELSE taskCtx
  /\ UNCHANGED <<retLimit, reranker, retPc, searchResults, retResults, retRet,
                 taskPc, taskArg, taskOut, taskElapsed, taskCount>>
  /\ UNCHANGED nonRetVars

\* rerankCtx, cancel := context.WithTimeout(context.Background(), ...) and
\* the read of results for the call of Rerank, which is not ordered with
\* the assignment to results in Retrieve.
TaskStart ==
  /\ taskPc = "start"
  /\ taskCtx' = [parent |-> RerankParent,
                 done |-> RerankParent = RerankParentCaller /\ callerDone]
  /\ taskElapsed' = 0
  /\ taskArg' = retResults
  /\ taskPc' = "rerank"
  /\ UNCHANGED <<retLimit, reranker, retPc, searchResults, retResults, retRet,
                 callerDone, taskOut, taskCount>>
  /\ UNCHANGED nonRetVars

\* Rerank returns before its context is done: reordered results, or the
\* original order with an error.  The deferred cancel ends rerankCtx.
RerankAnswer ==
  /\ taskPc = "rerank"
  /\ ~taskCtx.done
  /\ \E out \in Reorderings(taskArg) : taskOut' = out
  /\ taskCtx' = [taskCtx EXCEPT !.done = TRUE]
  /\ taskPc' = "done"
  /\ UNCHANGED <<retLimit, reranker, retPc, searchResults, retResults, retRet,
                 callerDone, taskArg, taskElapsed, taskCount>>
  /\ UNCHANGED nonRetVars

\* The LLM request made with rerankCtx fails when the context is done;
\* Rerank returns the original order and the error.
RerankExpire ==
  /\ taskPc = "rerank"
  /\ taskCtx.done
  /\ taskOut' = taskArg
  /\ taskPc' = "done"
  /\ UNCHANGED <<retLimit, reranker, retPc, searchResults, retResults, retRet,
                 callerDone, taskArg, taskCtx, taskElapsed, taskCount>>
  /\ UNCHANGED nonRetVars

\* A second passes while Rerank is waiting for the LLM; the timer of
\* rerankCtx fires at the timeout.
RerankTick ==
  /\ taskPc = "rerank"
  /\ ~taskCtx.done
  /\ taskElapsed <= RerankTimeout
  /\ taskElapsed' = taskElapsed + 1
  /\ taskCtx' = [taskCtx EXCEPT !.done = DeadlineReached(taskElapsed')]
  /\ UNCHANGED <<retLimit, reranker, retPc, searchResults, retResults, retRet,
                 callerDone, taskPc, taskArg, taskOut, taskCount>>
  /\ UNCHANGED nonRetVars

RetNext ==
  \/ RetrieveStep
  \/ CancelCaller
  \/ TaskStart
  \/ RerankAnswer
  \/ RerankExpire
  \/ RerankTick

\* ------------------------------------------------------------------------
\* The LLM reranker: openRouterLLM.Rerank and parseRerankResponse
\* ------------------------------------------------------------------------

\* The results argument: no text, one text, two texts.
RerankInputs == {<<>>, <<"t1">>, <<"t1", "t2">>}

\* A line of the answer is what stands before the numbers and the pieces
\* between the commas.
LineLabels == {"RERANKED:", "reranked:"}
NumberPieces == {"", "abc", "0", "1", "2x", "9"}
PieceLists ==
  {<<p>> : p \in NumberPieces} \cup {<<p, q>> : p, q \in NumberPieces}
MaxLines == 2

AnswerLines == {[label |-> l, pieces |-> p] : l \in LineLabels, p \in PieceLists}

Answers == UNION {[1..n -> AnswerLines] : n \in 1..MaxLines}

\* fmt.Sscanf(strings.TrimSpace(numStr), "%d", &index): the leading digits
\* are read, what follows them is left.
Sscanf(piece) ==
  CASE piece = "0" -> [ok |-> TRUE, index |-> 0]
    [] piece = "1" -> [ok |-> TRUE, index |-> 1]
    [] piece = "2x" -> [ok |-> TRUE, index |-> 2]
    [] piece = "9" -> [ok |-> TRUE, index |-> 9]
    [] OTHER -> [ok |-> FALSE, index |-> 0]

\* for _, numStr := range numbers { ... }
RECURSIVE PickResults(_, _)
PickResults(pieces, originalResults) ==
  IF pieces = <<>> THEN <<>>
  ELSE LET scanned == Sscanf(Head(pieces))
           index == scanned.index - 1
           rest == PickResults(Tail(pieces), originalResults)
       IN IF ~scanned.ok THEN rest
          ELSE IF index >= 0 /\ index < Len(originalResults)
            THEN <<originalResults[index + 1]>> \o rest
          ELSE rest

\* parseRerankResponse: the first line that starts with RERANKED: and
\* names at least one result decides; without one it is an error.
RECURSIVE parseRerankResponse(_, _)
parseRerankResponse(lines, originalResults) ==
  IF lines = <<>> THEN [err |-> TRUE, results |-> <<>>]
  ELSE LET line == Head(lines)
           rerankedResults == PickResults(line.pieces, originalResults)
       IN IF line.label = "RERANKED:" /\ Len(rerankedResults) > 0
            THEN [err |-> FALSE, results |-> rerankedResults]
            ELSE parseRerankResponse(Tail(lines), originalResults)

\* A fallback that reports the parse error.
RerankFallbackError(results) == [out |-> results, err |-> TRUE]

\* if err != nil { return results, nil }
RerankFallback(results) == [out |-> results, err |-> FALSE]

LlmInit ==
  /\ ltexts \in RerankInputs
  /\ LlmRest

\* if len(results) == 0 { return results, nil }
LlmEnter ==
  /\ lpc = "call"
  /\ IF Len(ltexts) = 0
       THEN /\ lout' = ltexts
            /\ lpc' = "returned"
       ELSE /\ lpc' = "generate"
            /\ UNCHANGED lout
  /\ UNCHANGED <<ltexts, lresponse, lfailed, lerr>>
  /\ UNCHANGED nonLlmVars

\* response, err := l.Generate(ctx, prompt)
LlmGenerate ==
  /\ lpc = "generate"
  /\ \/ /\ lfailed' = TRUE
        /\ lout' = ltexts
        /\ lerr' = TRUE
        /\ lpc' = "returned"
        /\ UNCHANGED lresponse
     \/ /\ lresponse' \in Answers
        /\ lpc' = "parse"
        /\ UNCHANGED <<lfailed, lout, lerr>>
  /\ UNCHANGED ltexts
  /\ UNCHANGED nonLlmVars

\* rerankedResults, err := l.parseRerankResponse(response, results)
LlmParse ==
  /\ lpc = "parse"
  /\ LET parsed == parseRerankResponse(lresponse, ltexts)
         ret == IF parsed.err THEN RerankFallback(ltexts)
                ELSE [out |-> parsed.results, err |-> FALSE]
     IN /\ lout' = ret.out
        /\ lerr' = ret.err
  /\ lpc' = "returned"
  /\ UNCHANGED <<ltexts, lresponse, lfailed>>
  /\ UNCHANGED nonLlmVars

LlmNext ==
  \/ LlmEnter
  \/ LlmGenerate
  \/ LlmParse

\* ------------------------------------------------------------------------
\* The crawl command: the result loop of runCrawl
\* ------------------------------------------------------------------------

\* Capacity of pageChan and of errorChan, and the events of one run.
CliChanCap == 2
MaxEmitted == 2

\* A worker sends a page: pageChan <- page
CrawlerSendPage ==
  /\ ~cliErrorClosed
  /\ cliPages < CliChanCap
  /\ emittedPages < MaxEmitted
  /\ cliPages' = cliPages + 1
  /\ emittedPages' = emittedPages + 1
  /\ UNCHANGED <<cliErrors, cliPageClosed, cliErrorClosed, emittedErrors,
                 pageCount, errorCount, indexedCount, cliPc>>
  /\ UNCHANGED nonCliVars

\* A worker sends an error: errorChan <- fmt.Errorf(...)
CrawlerSendError ==
  /\ ~cliErrorClosed
  /\ cliErrors < CliChanCap
  /\ emittedErrors < MaxEmitted
  /\ cliErrors' = cliErrors + 1
  /\ emittedErrors' = emittedErrors + 1
  /\ UNCHANGED <<cliPages, cliPageClosed, cliErrorClosed, emittedPages,
                 pageCount, errorCount, indexedCount, cliPc>>
  /\ UNCHANGED nonCliVars

\* The workers have exited: defer close(errorChan) runs first.
CrawlerCloseError ==
  /\ ~cliErrorClosed
  /\ cliErrorClosed' = TRUE
  /\ UNCHANGED <<cliPages, cliErrors, cliPageClosed, emittedPages,
                 emittedErrors, pageCount, errorCount, indexedCount, cliPc>>
  /\ UNCHANGED nonCliVars

\* defer close(pageChan) runs last.
CrawlerClosePage ==
  /\ cliErrorClosed
  /\ ~cliPageClosed
  /\ cliPageClosed' = TRUE
  /\ UNCHANGED <<cliPages, cliErrors, cliErrorClosed, emittedPages,
                 emittedErrors, pageCount, errorCount, indexedCount, cliPc>>
  /\ UNCHANGED nonCliVars

\* case page, ok := <-pageChan with ok: the page is counted, then saved,
\* chunked, embedded and indexed; any of these may fail and continue.
CliRecvPage ==
  /\ cliPc = "loop"
  /\ cliPages > 0
  /\ cliPages' = cliPages - 1
  /\ pageCount' = pageCount + 1
  /\ \E indexed \in BOOLEAN :
       indexedCount' = IF indexed THEN indexedCount + 1 ELSE indexedCount
  /\ UNCHANGED <<cliErrors, cliPageClosed, cliErrorClosed, emittedPages,
                 emittedErrors, errorCount, cliPc>>
  /\ UNCHANGED nonCliVars

\* case page, ok := <-pageChan with !ok: one receive from errorChan is
\* tried (a closed and empty errorChan gives nil), then goto done.
CliPageClosed ==
  /\ cliPc = "loop"
  /\ cliPages = 0
  /\ cliPageClosed
  /\ IF cliErrors > 0
       THEN /\ cliErrors' = cliErrors - 1
            /\ errorCount' = errorCount + 1
       ELSE UNCHANGED <<cliErrors, errorCount>>
  /\ cliPc' = "done"
  /\ UNCHANGED <<cliPages, cliPageClosed, cliErrorClosed, emittedPages,
                 emittedErrors, pageCount, indexedCount>>
  /\ UNCHANGED nonCliVars

\* case err := <-errorChan: a non-nil error is counted; a closed and empty
\* errorChan gives nil, which is not.
CliRecvError ==
  /\ cliPc = "loop"
  /\ cliErrors > 0 \/ cliErrorClosed
  /\ IF cliErrors > 0
       THEN /\ cliErrors' = cliErrors - 1
            /\ errorCount' = errorCount + 1
       ELSE UNCHANGED <<cliErrors, errorCount>>
  /\ UNCHANGED <<cliPages, cliPageClosed, cliErrorClosed, emittedPages,
                 emittedErrors, pageCount, indexedCount, cliPc>>
  /\ UNCHANGED nonCliVars

CliNext ==
  \/ CrawlerSendPage
  \/ CrawlerSendError
  \/ CrawlerCloseError
  \/ CrawlerClosePage
  \/ CliRecvPage
  \/ CliPageClosed
  \/ CliRecvError

\* ------------------------------------------------------------------------
\* The document store: postgresStore.SaveChunks
\* ------------------------------------------------------------------------

\* The chunk lists given to SaveChunks: up to MaxChunks chunk ids.
MaxChunks == 2
ChunkLists == UNION {[1..n -> StoreChunkIds] : n \in 0..MaxChunks}

\* if len(chunks) == 0 { return nil }
ReturnsEarly(chunks) == Len(chunks) = 0

\* SaveChunks(ctx, docID, chunks) is called.
SaveEnter(docID, chunks) ==
  /\ sPc \in {"idle", "returned"}
  /\ sDoc' = docID
  /\ sChunks' = chunks
  /\ sNext' = 1
  /\ sErr' = FALSE
  /\ sBefore' = chunksTable
  /\ sPc' = IF ReturnsEarly(chunks) THEN "returned" ELSE "begin"
  /\ UNCHANGED <<chunksTable, txTable>>
  /\ UNCHANGED nonStoreVars

\* The deferred tx.Rollback() after an error: the committed rows stay.
SaveFails ==
  /\ sErr' = TRUE
  /\ sPc' = "returned"
  /\ UNCHANGED <<chunksTable, txTable>>

\* tx, err := s.db.BeginTx(ctx, nil)
SaveBegin ==
  /\ sPc = "begin"
  /\ \/ SaveFails
     \/ /\ txTable' = chunksTable
        /\ sPc' = "delete"
        /\ UNCHANGED <<chunksTable, sErr>>
  /\ UNCHANGED <<sDoc, sChunks, sNext, sBefore>>
  /\ UNCHANGED nonStoreVars

\* DELETE FROM chunks WHERE document_id = $1
SaveDelete ==
  /\ sPc = "delete"
  /\ \/ SaveFails
     \/ /\ txTable' = [k \in StoreChunkIds |->
                         IF txTable[k] = sDoc THEN "" ELSE txTable[k]]
        /\ sPc' = "insert"
        /\ UNCHANGED <<chunksTable, sErr>>
  /\ UNCHANGED <<sDoc, sChunks, sNext, sBefore>>
  /\ UNCHANGED nonStoreVars

\* INSERT INTO chunks ... for the next chunk; the primary key id rejects a
\* second row with the same id.
SaveInsert ==
  /\ sPc = "insert"
  /\ sNext <= Len(sChunks)
  /\ \/ /\ SaveFails
        /\ UNCHANGED sNext
     \/ /\ txTable[sChunks[sNext]] = ""
        /\ txTable' = [txTable EXCEPT ![sChunks[sNext]] = sDoc]
        /\ sNext' = sNext + 1
        /\ UNCHANGED <<chunksTable, sErr, sPc>>
  /\ UNCHANGED <<sDoc, sChunks, sBefore>>
  /\ UNCHANGED nonStoreVars

\* tx.Commit()
SaveCommit ==
  /\ sPc = "insert"
  /\ sNext > Len(sChunks)
  /\ \/ /\ SaveFails
     \/ /\ chunksTable' = txTable
        /\ sPc' = "returned"
        /\ UNCHANGED <<txTable, sErr>>
  /\ UNCHANGED <<sDoc, sChunks, sNext, sBefore>>
  /\ UNCHANGED nonStoreVars

StoreNext ==
  \/ \E docID \in StoreDocIds : \E chunks \in ChunkLists : SaveEnter(docID, chunks)
  \/ SaveBegin
  \/ SaveDelete
  \/ SaveInsert
  \/ SaveCommit

\* ------------------------------------------------------------------------
\* The search endpoint: httpServer.handleSearch
\* ------------------------------------------------------------------------

SrvMethods == {"OPTIONS", "GET", "POST", "PUT"}
SrvQueries == {"", "go"}

\* The limit as the request writes it: absent, not a number, and numbers
\* below, at and above the two tests of the handler.
SrvLimitTexts == {"", "abc", "-5", "0", "1", "7", "100", "101", "5000"}

SrvInit ==
  /\ hMethod \in SrvMethods
  /\ hQuery \in SrvQueries
  /\ hLimitText \in SrvLimitTexts
  /\ SrvRest

\* The preflight answer, the method test and the parsing of the request.
HandleParse ==
  /\ hPc = "parse"
  /\ IF hMethod = "OPTIONS"
       THEN /\ hStatus' = 200
            /\ hPc' = "done"
            /\ UNCHANGED hReq
     ELSE IF hMethod # "GET" /\ hMethod # "POST"
       THEN /\ hStatus' = 405
            /\ hPc' = "done"
            /\ UNCHANGED hReq
     ELSE IF hMethod = "POST"
       THEN IF hLimitText # "" /\ Atoi(hLimitText).err
              THEN /\ hStatus' = 400
                   /\ hPc' = "done"
                   /\ UNCHANGED hReq
              ELSE /\ hReq' = [Query |-> hQuery, Limit |-> Atoi(hLimitText).value]
                   /\ hPc' = "defaults"
                   /\ UNCHANGED hStatus
     ELSE IF hQuery = ""
       THEN /\ hStatus' = 400
            /\ hPc' = "done"
            /\ hReq' = [hReq EXCEPT !.Query = hQuery]
     ELSE /\ hReq' = [Query |-> hQuery,
                      Limit |-> IF hLimitText # "" /\ ~Atoi(hLimitText).err
                                  THEN Atoi(hLimitText).value ELSE 0]
          /\ hPc' = "defaults"
          /\ UNCHANGED hStatus
  /\ UNCHANGED <<hMethod, hQuery, hLimitText, hHanded>>
  /\ UNCHANGED nonSrvVars

\* if req.Limit == 0 { req.Limit = 10 }; if req.Limit > 100 { req.Limit = 100 }
HandleDefaults ==
  /\ hPc = "defaults"
  /\ LET defaulted == IF hReq.Limit = 0 THEN 10 ELSE hReq.Limit
     IN hReq' = [hReq EXCEPT !.Limit = IF defaulted > 100 THEN 100 ELSE defaulted]
  /\ hPc' = "retrieve"
  /\ UNCHANGED <<hMethod, hQuery, hLimitText, hStatus, hHanded>>
  /\ UNCHANGED nonSrvVars

\* results, err := s.retriever.Retrieve(r.Context(), req.Query, req.Limit)
HandleRetrieve ==
  /\ hPc = "retrieve"
  /\ hHanded' = hHanded \cup {hReq.Limit}
  /\ \E failed \in BOOLEAN : hStatus' = IF failed THEN 500 ELSE 200
  /\ hPc' = "done"
  /\ UNCHANGED <<hMethod, hQuery, hLimitText, hReq>>
  /\ UNCHANGED nonSrvVars

SrvNext ==
  \/ HandleParse
  \/ HandleDefaults
  \/ HandleRetrieve

\* ------------------------------------------------------------------------
\* The interval of a new gate in rateLimit
\* ------------------------------------------------------------------------

\* The configured rates n/d requests per second: 2 = 2/1, 0.1 = 1/10,
\* 4 = 4/1, 0.25 = 25/100, and the rates that are not positive.
MaxRateNum == 25
RateDens == {1, 10, 100}
GateRates == {<<n, d>> : n \in (0 - 1)..MaxRateNum, d \in RateDens}

GateInit ==
  /\ gRate \in GateRates
  /\ GateRest

\* if c.config.RateLimit <= 0 { return }
GateCheck ==
  /\ gPc = "check"
  /\ gPc' = IF Positive(gRate) THEN "create" ELSE "returned"
  /\ UNCHANGED <<gRate, gInterval>>
  /\ UNCHANGED nonGateVars

\* interval := time.Duration(1.0/c.config.RateLimit) * time.Second, the
\* test interval <= 0, and time.NewTicker(interval)
GateCreate ==
  /\ gPc = "create"
  /\ gInterval' = Interval(gRate)
  /\ gPc' = "created"
  /\ UNCHANGED gRate
  /\ UNCHANGED nonGateVars

GateNext ==
  \/ GateCheck
  \/ GateCreate

\* ------------------------------------------------------------------------
\* parseRobotsTxt on its own
\* ------------------------------------------------------------------------

\* The lines of the bodies: sections for every agent, for the configured
\* agent, for the configured agent in another case and for another agent;
\* Disallow lines with and without a path; Crawl-delay lines with and
\* without an integer; a line of another directive.
ParseBodyLines ==
  {UALine("*"), UALine(UserAgent), UALine("AI-Search/1.0"), UALine("otherbot"),
   DisLine(<<"/", "a">>), DisLine(<<"/", "b">>), DisLine(<<>>),
   DelayLine("2"), DelayLine("7"), DelayLine("abc"), OtherLine}

MaxBodyLines == 4

ParseBodies == UNION {[1..n -> ParseBodyLines] : n \in 0..MaxBodyLines}

ParseInit ==
  /\ pBody \in ParseBodies
  /\ ParseRest

\* robots, err := parseRobotsTxt(resp.Body, userAgent), the body being read
\* without error
ParseCall ==
  /\ pPc = "call"
  /\ pRobots' = parseRobotsTxt([body |-> pBody, readErr |-> FALSE], UserAgent).robots
  /\ pPc' = "parsed"
  /\ UNCHANGED pBody
  /\ UNCHANGED nonParseVars

ParseNext == ParseCall

\* ------------------------------------------------------------------------
\* What enters the frontier: the seed and the links of fetched pages
\* ------------------------------------------------------------------------

\* The seeds a user passes to the crawl command, and the links a page has.
IntakeSeeds ==
  {r \in RawURLs : r.port = "" /\ r.fragment = "" /\ r.name # "" /\
                   r.query \in {<<>>, <<Pair("download", "1")>>}}

IntakeLinks ==
  {r \in RawURLs : r.scheme \in {"http", "ftp"} /\ r.name = "A.Test" /\
                   r.port \in {"", "80"} /\ r.fragment = "top" /\
                   r.path \in {<<"/", "a">>, <<"/", "a", "/", "/">>,
                               <<"/", "x", ".", "p", "d", "f">>} /\
                   r.query \in {<<>>, <<Pair("download", "1")>>}}

MaxLinks == 1

IntakeInit ==
  /\ inSeed \in IntakeSeeds
  /\ IntakeRest

\* startURL, err := url.Parse(crawlURL); c.Crawl(ctx, startURL, crawlDepth):
\* urlChan <- urlWithDepth{url: startURL, depth: 0}
IntakeSeed ==
  /\ inPc = "start"
  /\ inFrontier' = <<String(Parse(inSeed))>>
  /\ inPc' = "run"
  /\ UNCHANGED <<inSeed, inFetched, inLinks>>
  /\ UNCHANGED nonIntakeVars

\* case urlData, ok := <-urlChan: ... page, err := c.fetchAndParse(ctx, url)
IntakeFetch ==
  /\ inPc = "run"
  /\ inFrontier # <<>>
  /\ inFetched' = inFetched \cup {Head(inFrontier)}
  /\ inFrontier' = Tail(inFrontier)
  /\ UNCHANGED <<inSeed, inPc, inLinks>>
  /\ UNCHANGED nonIntakeVars

\* A link of a fetched page: Normalize(link.String(), targetURL) and
\* IsValid(normalized) in fetchAndParse, then urlChan <- urlWithDepth{url:
\* link, depth: depth + 1} in the worker.
IntakeLink(link) ==
  /\ inPc = "run"
  /\ inFetched # {}
  /\ inLinks < MaxLinks
  /\ inLinks' = inLinks + 1
  /\ inFrontier' = IF IsValid(Normalize(link))
                     THEN Append(inFrontier, String(Normalize(link)))
                     ELSE inFrontier
  /\ UNCHANGED <<inSeed, inPc, inFetched>>
  /\ UNCHANGED nonIntakeVars

IntakeNext ==
  \/ IntakeSeed
  \/ IntakeFetch
  \/ \E link \in IntakeLinks : IntakeLink(link)

\* ------------------------------------------------------------------------
\* fetchAndParse: the request, the status, the content type, the parser
\* ------------------------------------------------------------------------

\* The statuses c.client.Do hands to fetchAndParse (redirects are followed
\* by the client; 304 and 3xx without Location are handed over).
FetchStatuses == {200, 201, 204, 206, 299, 199, 300, 304, 404, 500}

\* The answers: a transport failure, or a response with its status, with or
\* without text/html in its Content-Type, whose body parses or not.
FetchResponses ==
  {[failed |-> fl, status |-> st, html |-> h, parses |-> p] :
     fl \in BOOLEAN, st \in FetchStatuses, h \in BOOLEAN, p \in BOOLEAN}

FetchInit ==
  /\ fResp \in FetchResponses
  /\ FetchRest

\* if resp.StatusCode != http.StatusOK
RejectsStatus(status) == status # 200

\* resp, err := c.client.Do(req); if err != nil { return nil, err }
FetchDo ==
  /\ fPc = "do"
  /\ IF fResp.failed
       THEN fPc' = "done" /\ fOut' = "error"
       ELSE fPc' = "status" /\ UNCHANGED fOut
  /\ UNCHANGED fResp
  /\ UNCHANGED nonFetchVars

\* if resp.StatusCode != http.StatusOK { return nil, fmt.Errorf("HTTP %d") }
FetchStatus ==
  /\ fPc = "status"
  /\ IF RejectsStatus(fResp.status)
       THEN fPc' = "done" /\ fOut' = "error"
       ELSE fPc' = "contentType" /\ UNCHANGED fOut
  /\ UNCHANGED fResp
  /\ UNCHANGED nonFetchVars

\* if !strings.Contains(contentType, "text/html") { return nil, ... }
FetchContentType ==
  /\ fPc = "contentType"
  /\ IF ~fResp.html
       THEN fPc' = "done" /\ fOut' = "error"
       ELSE fPc' = "parse" /\ UNCHANGED fOut
  /\ UNCHANGED fResp
  /\ UNCHANGED nonFetchVars

\* parsed, err := c.parser.ParseHTML(limitedReader, targetURL); return &Page
FetchParse ==
  /\ fPc = "parse"
  /\ fOut' = IF fResp.parses THEN "page" ELSE "error"
  /\ fPc' = "done"
  /\ UNCHANGED fResp
  /\ UNCHANGED nonFetchVars

FetchNext ==
  \/ FetchDo
  \/ FetchStatus
  \/ FetchContentType
  \/ FetchParse

\* ------------------------------------------------------------------------
\* llmReranker.Rerank: from the texts the LLM ranked back to the results
\* ------------------------------------------------------------------------

\* The results argument: up to two results with different chunk ids, whose
\* texts are different or the same.
RrInputs ==
  {<<>>} \cup
  {<<[ChunkID |-> "c1", Text |-> t]>> : t \in {"t1", "t2"}} \cup
  {<<[ChunkID |-> "c1", Text |-> t], [ChunkID |-> "c2", Text |-> u]>> :
     t \in {"t1", "t2"}, u \in {"t1", "t2"}}

RrInit ==
  /\ rrResults \in RrInputs
  /\ RrRest

\* for _, result := range results { resultTexts = append(..., result.Text) }
ResultTexts(results) == [i \in 1..Len(results) |-> results[i].Text]

\* for _, result := range results { textToResult[result.Text] = result }:
\* the last result with the text.
TextToResult(results, text) ==
  LET with == {i \in 1..Len(results) : results[i].Text = text}
  IN IF with = {} THEN <<>>
     ELSE <<results[CHOOSE i \in with : \A k \in with : k <= i]>>

\* for _, text := range rerankedTexts { if result, exists := ... }
RECURSIVE Reordered(_, _)
Reordered(results, rerankedTexts) ==
  IF rerankedTexts = <<>> THEN <<>>
  ELSE TextToResult(results, Head(rerankedTexts))
         \o Reordered(results, Tail(rerankedTexts))

\* for _, result := range results { ... if !found { append } }: the first n
\* results are looked up by chunk id in what was collected so far.
RECURSIVE AddMissing(_, _, _)
AddMissing(results, rerankedResults, n) ==
  IF n = 0 THEN rerankedResults
  ELSE LET sofar == AddMissing(results, rerankedResults, n - 1)
           found == \E i \in 1..Len(sofar) : sofar[i].ChunkID = results[n].ChunkID
       IN IF found THEN sofar ELSE Append(sofar, results[n])

\* if len(results) == 0 { return results, nil }
RrEnter ==
  /\ rrPc = "call"
  /\ IF Len(rrResults) = 0
       THEN /\ rrOut' = rrResults
            /\ rrPc' = "returned"
       ELSE /\ rrPc' = "llm"
            /\ UNCHANGED rrOut
  /\ UNCHANGED <<rrResults, rrResponse, rrTexts, rrErr>>
  /\ UNCHANGED nonRrVars

\* rerankedTexts, err := r.llm.Rerank(ctx, query, resultTexts);
\* if err != nil { return results, err }
RrCallLlm ==
  /\ rrPc = "llm"
  /\ \/ /\ rrOut' = rrResults
        /\ rrErr' = TRUE
        /\ rrPc' = "returned"
        /\ UNCHANGED <<rrResponse, rrTexts>>
     \/ \E response \in Answers :
          LET parsed == parseRerankResponse(response, ResultTexts(rrResults))
              ret == IF parsed.err THEN RerankFallback(ResultTexts(rrResults))
                     ELSE [out |-> parsed.results, err |-> FALSE]
          IN /\ rrResponse' = response
             /\ rrTexts' = ret.out
             /\ rrPc' = "reorder"
             /\ UNCHANGED <<rrOut, rrErr>>
  /\ UNCHANGED rrResults
  /\ UNCHANGED nonRrVars

\* The map of text to result, the reordering, the results that were not
\* reranked, and return rerankedResults, nil
RrReorder ==
  /\ rrPc = "reorder"
  /\ rrOut' = AddMissing(rrResults, Reordered(rrResults, rrTexts), Len(rrResults))
  /\ rrPc' = "returned"
  /\ UNCHANGED <<rrResults, rrResponse, rrTexts, rrErr>>
  /\ UNCHANGED nonRrVars

RrNext ==
  \/ RrEnter
  \/ RrCallLlm
  \/ RrReorder

\* ------------------------------------------------------------------------
\* hybridIndexer.Search step by step, and what Retrieve does with it
\* ------------------------------------------------------------------------

\* The step that fails: the query embedding, the vector query, the lexical
\* query, or none.
SearchFailures == {"none", "embedding", "vector", "lexical"}

HsInit ==
  /\ hsFail \in SearchFailures
  /\ hsVec \in SUBSET ChunkHashes
  /\ hsBm \in SUBSET ChunkHashes
  /\ hsReranker \in BOOLEAN
  /\ HsRest

\* A Search that goes on with what it has when a step fails.
SearchFailsPartial(partial) == [results |-> partial, isNil |-> FALSE, err |-> FALSE]

\* return nil, fmt.Errorf("failed to ...: %w", err)
SearchFails(partial) == [results |-> {}, isNil |-> TRUE, err |-> TRUE]

\* queryEmbedding, err := i.config.Embedder.Embed(ctx, query)
SearchEmbed ==
  /\ hsPc = "embed"
  /\ IF hsFail = "embedding"
       THEN /\ hsOut' = SearchFails({})
            /\ hsPc' = "searched"
       ELSE /\ hsPc' = "vector"
            /\ UNCHANGED hsOut
  /\ UNCHANGED <<hsFail, hsVec, hsBm, hsReranker, vectorGot, bm25Got, hsAsked,
                 hsRet, hsTask>>
  /\ UNCHANGED nonHsVars

\* vectorResults, err := i.searchChroma(ctx, queryEmbedding, limit*2)
SearchVector ==
  /\ hsPc = "vector"
  /\ IF hsFail = "vector"
       THEN /\ hsOut' = SearchFails({})
            /\ hsPc' = "searched"
            /\ UNCHANGED <<vectorGot, hsAsked>>
       ELSE /\ vectorGot' = hsVec
            /\ hsAsked' = hsAsked \cup {"vector"}
            /\ hsPc' = "lexical"
            /\ UNCHANGED hsOut
  /\ UNCHANGED <<hsFail, hsVec, hsBm, hsReranker, bm25Got, hsRet, hsTask>>
  /\ UNCHANGED nonHsVars

\* bm25Results, err := i.searchElasticsearch(ctx, query, limit*2)
SearchLexical ==
  /\ hsPc = "lexical"
  /\ IF hsFail = "lexical"
       THEN /\ hsOut' = SearchFails(vectorGot)
            /\ hsPc' = "searched"
            /\ UNCHANGED <<bm25Got, hsAsked>>
       ELSE /\ bm25Got' = hsBm
            /\ hsAsked' = hsAsked \cup {"lexical"}
            /\ hsPc' = "combine"
            /\ UNCHANGED hsOut
  /\ UNCHANGED <<hsFail, hsVec, hsBm, hsReranker, vectorGot, hsRet, hsTask>>
  /\ UNCHANGED nonHsVars

\* combinedResults := i.combineResults(vectorResults, bm25Results, limit),
\* as the chunk ids of the fused list under a limit that cuts nothing;
\* return combinedResults, nil
SearchCombine ==
  /\ hsPc = "combine"
  /\ hsOut' = [results |-> vectorGot \cup bm25Got, isNil |-> FALSE, err |-> FALSE]
  /\ hsPc' = "searched"
  /\ UNCHANGED <<hsFail, hsVec, hsBm, hsReranker, vectorGot, bm25Got, hsAsked,
                 hsRet, hsTask>>
  /\ UNCHANGED nonHsVars

\* Retrieve: if err != nil { return nil, fmt.Errorf(...) }; the rerank task
\* is started if r.reranker != nil && len(results) > 0; return results, nil
RetrieveAfterSearch ==
  /\ hsPc = "searched"
  /\ IF hsOut.err
       THEN /\ hsRet' = [results |-> {}, isNil |-> TRUE, err |-> TRUE]
            /\ UNCHANGED hsTask
       ELSE /\ hsTask' = (hsReranker /\ hsOut.results # {})
            /\ hsRet' = hsOut
  /\ hsPc' = "returned"
  /\ UNCHANGED <<hsFail, hsVec, hsBm, hsReranker, vectorGot, bm25Got, hsAsked,
                 hsOut>>
  /\ UNCHANGED nonHsVars

HsNext ==
  \/ SearchEmbed
  \/ SearchVector
  \/ SearchLexical
  \/ SearchCombine
  \/ RetrieveAfterSearch

WorkerStep(w) ==
  \/ WorkerCtxDone(w)
  \/ WorkerReceive(w)
  \/ WorkerCheckVisited(w)
  \/ WorkerMarkVisited(w)
  \/ WorkerRobots(w)
  \/ WorkerRateLimit(w)
  \/ WorkerFetch(w)
  \/ WorkerSendError(w)
  \/ WorkerSendPage(w)
  \/ WorkerEnqueue(w)
  \/ WorkerEnqueueCtxDone(w)

OrchStep ==
  \/ OrchSeed
  \/ OrchWait
  \/ OrchCloseUrl
  \/ OrchCloseError
  \/ OrchClosePage

Next ==
  \/ OrchStep
  \/ \E w \in Workers : WorkerStep(w)
  \/ Cancel
  \/ ConsumePage
  \/ ConsumeError

Spec == Init /\ [][Next]_vars

\* The Go scheduler runs every goroutine that can take a step: the
\* orchestrator and each worker are weakly fair.  The caller's cancellation
\* and the stream consumer are the environment and carry no fairness.
FairSpec ==
  /\ Spec
  /\ WF_vars(OrchStep)
  /\ \A w \in Workers : WF_vars(WorkerStep(w))

\* The rate limiter alone, for every configured rate; the crawl engine
\* rests in its initial state.
RateSpecInit ==
  /\ CrawlInit
  /\ maxDepth = 0
  /\ respectRobots = FALSE
  /\ RateInit
  /\ RobotsInit
  /\ NormRest
  /\ nraw = SeedRaw
  /\ FuseIdle
  /\ IdxInit
  /\ RetIdle
  /\ LlmIdle
  /\ CliInit
  /\ StoreInit
  /\ SrvIdle
  /\ GateIdle
  /\ ParseIdle
  /\ IntakeIdle
  /\ FetchIdle
  /\ RrIdle
  /\ HsIdle

RateSpec == RateSpecInit /\ [][RateNext]_vars

\* The robots cache alone, with concurrent calls of canCrawl; the crawl
\* engine and the rate limiter rest in their initial state.
RobotsSpecInit ==
  /\ CrawlInit
  /\ maxDepth = 0
  /\ respectRobots = TRUE
  /\ RateInit
  /\ configured = <<1, 10>>
  /\ RobotsInit
  /\ NormRest
  /\ nraw = SeedRaw
  /\ FuseIdle
  /\ IdxInit
  /\ RetIdle
  /\ LlmIdle
  /\ CliInit
  /\ StoreInit
  /\ SrvIdle
  /\ GateIdle
  /\ ParseIdle
  /\ IntakeIdle
  /\ FetchIdle
  /\ RrIdle
  /\ HsIdle

RobotsSpec == RobotsSpecInit /\ [][RobotsNext]_vars

\* The normalizer alone, on every URL string of the model.
NormSpecInit ==
  /\ CrawlInit
  /\ maxDepth = 0
  /\ respectRobots = FALSE
  /\ RateInit
  /\ configured = <<1, 10>>
  /\ RobotsInit
  /\ NormInit
  /\ FuseIdle
  /\ IdxInit
  /\ RetIdle
  /\ LlmIdle
  /\ CliInit
  /\ StoreInit
  /\ SrvIdle
  /\ GateIdle
  /\ ParseIdle
  /\ IntakeIdle
  /\ FetchIdle
  /\ RrIdle
  /\ HsIdle

NormSpec == NormSpecInit /\ [][NormNext]_vars

\* combineResults alone, on every pair of backend lists of the model.
FuseSpecInit ==
  /\ CrawlInit
  /\ maxDepth = 0
  /\ respectRobots = FALSE
  /\ RateInit
  /\ configured = <<1, 10>>
  /\ RobotsInit
  /\ NormRest
  /\ nraw = SeedRaw
  /\ FuseInit
  /\ IdxInit
  /\ RetIdle
  /\ LlmIdle
  /\ CliInit
  /\ StoreInit
  /\ SrvIdle
  /\ GateIdle
  /\ ParseIdle
  /\ IntakeIdle
  /\ FetchIdle
  /\ RrIdle
  /\ HsIdle

FuseSpec == FuseSpecInit /\ [][FuseNext]_vars

\* The crawl engine, the rate limiter, the robots cache, the normalizer and
\* the result fusion in their state after construction.
CrawlSideRest ==
  /\ CrawlInit
  /\ maxDepth = 0
  /\ respectRobots = FALSE
  /\ RateInit
  /\ configured = <<1, 10>>
  /\ RobotsInit
  /\ NormRest
  /\ nraw = SeedRaw
  /\ FuseIdle

\* The indexer's backends, with Index and Search calls one at a time.
IdxSpecInit ==
  /\ CrawlSideRest
  /\ IdxInit
  /\ RetIdle
  /\ LlmIdle
  /\ CliInit
  /\ StoreInit
  /\ SrvIdle
  /\ GateIdle
  /\ ParseIdle
  /\ IntakeIdle
  /\ FetchIdle
  /\ RrIdle
  /\ HsIdle

IdxSpec == IdxSpecInit /\ [][IdxNext]_vars

\* One Retrieve call for every limit, with and without a reranker.
RetSpecInit ==
  /\ CrawlSideRest
  /\ IdxInit
  /\ RetInit
  /\ LlmIdle
  /\ CliInit
  /\ StoreInit
  /\ SrvIdle
  /\ GateIdle
  /\ ParseIdle
  /\ IntakeIdle
  /\ FetchIdle
  /\ RrIdle
  /\ HsIdle

RetSpec == RetSpecInit /\ [][RetNext]_vars

\* Retrieve and the goroutine take their steps, time passes, and a Rerank
\* call whose context is done returns; an answer before that is not
\* promised.
RetFairSpec ==
  /\ RetSpec
  /\ WF_vars(RetrieveStep)
  /\ WF_vars(TaskStart)
  /\ WF_vars(RerankTick)
  /\ WF_vars(RerankExpire)

\* One Rerank call for every list of texts and every answer of the model.
LlmSpecInit ==
  /\ CrawlSideRest
  /\ IdxInit
  /\ RetIdle
  /\ LlmInit
  /\ CliInit
  /\ StoreInit
  /\ SrvIdle
  /\ GateIdle
  /\ ParseIdle
  /\ IntakeIdle
  /\ FetchIdle
  /\ RrIdle
  /\ HsIdle

LlmSpec == LlmSpecInit /\ [][LlmNext]_vars

\* The result loop of the crawl command, reading what the crawler sends.
CliSpecInit ==
  /\ CrawlSideRest
  /\ IdxInit
  /\ RetIdle
  /\ LlmIdle
  /\ CliInit
  /\ StoreInit
  /\ SrvIdle
  /\ GateIdle
  /\ ParseIdle
  /\ IntakeIdle
  /\ FetchIdle
  /\ RrIdle
  /\ HsIdle

CliSpec == CliSpecInit /\ [][CliNext]_vars

\* The document store, with SaveChunks calls one after the other.
StoreSpecInit ==
  /\ CrawlSideRest
  /\ IdxInit
  /\ RetIdle
  /\ LlmIdle
  /\ CliInit
  /\ StoreInit
  /\ SrvIdle
  /\ GateIdle
  /\ ParseIdle
  /\ IntakeIdle
  /\ FetchIdle
  /\ RrIdle
  /\ HsIdle

StoreSpec == StoreSpecInit /\ [][StoreNext]_vars

\* One request to the search endpoint, for every method, query and limit.
SrvSpecInit ==
  /\ CrawlSideRest
  /\ IdxInit
  /\ RetIdle
  /\ LlmIdle
  /\ CliInit
  /\ StoreInit
  /\ SrvInit
  /\ GateIdle
  /\ ParseIdle
  /\ IntakeIdle
  /\ FetchIdle
  /\ RrIdle
  /\ HsIdle

SrvSpec == SrvSpecInit /\ [][SrvNext]_vars

\* The creation of a gate, for every configured rate of the model.
GateSpecInit ==
  /\ CrawlSideRest
  /\ IdxInit
  /\ RetIdle
  /\ LlmIdle
  /\ CliInit
  /\ StoreInit
  /\ SrvIdle
  /\ GateInit
  /\ ParseIdle
  /\ IntakeIdle
  /\ FetchIdle
  /\ RrIdle
  /\ HsIdle

GateSpec == GateSpecInit /\ [][GateNext]_vars

\* parseRobotsTxt alone, for every body of the model.
ParseSpecInit ==
  /\ CrawlSideRest
  /\ IdxInit
  /\ RetIdle
  /\ LlmIdle
  /\ CliInit
  /\ StoreInit
  /\ SrvIdle
  /\ GateIdle
  /\ ParseInit
  /\ IntakeIdle
  /\ FetchIdle
  /\ RrIdle
  /\ HsIdle

ParseSpec == ParseSpecInit /\ [][ParseNext]_vars

\* The frontier of one run, for every seed and every link of the model.
IntakeSpecInit ==
  /\ CrawlSideRest
  /\ IdxInit
  /\ RetIdle
  /\ LlmIdle
  /\ CliInit
  /\ StoreInit
  /\ SrvIdle
  /\ GateIdle
  /\ ParseIdle
  /\ IntakeInit
  /\ FetchIdle
  /\ RrIdle
  /\ HsIdle

IntakeSpec == IntakeSpecInit /\ [][IntakeNext]_vars

\* fetchAndParse alone, for every answer of the model.
FetchSpecInit ==
  /\ CrawlSideRest
  /\ IdxInit
  /\ RetIdle
  /\ LlmIdle
  /\ CliInit
  /\ StoreInit
  /\ SrvIdle
  /\ GateIdle
  /\ ParseIdle
  /\ IntakeIdle
  /\ FetchInit
  /\ RrIdle
  /\ HsIdle

FetchSpec == FetchSpecInit /\ [][FetchNext]_vars

\* llmReranker.Rerank alone, for every input and every answer of the model.
RrSpecInit ==
  /\ CrawlSideRest
  /\ IdxInit
  /\ RetIdle
  /\ LlmIdle
  /\ CliInit
  /\ StoreInit
  /\ SrvIdle
  /\ GateIdle
  /\ ParseIdle
  /\ IntakeIdle
  /\ FetchIdle
  /\ RrInit
  /\ HsIdle

RrSpec == RrSpecInit /\ [][RrNext]_vars

\* Retrieve with the steps of Search, for every failing step and every
\* content of the two backends.
HsSpecInit ==
  /\ CrawlSideRest
  /\ IdxInit
  /\ RetIdle
  /\ LlmIdle
  /\ CliInit
  /\ StoreInit
  /\ SrvIdle
  /\ GateIdle
  /\ ParseIdle
  /\ IntakeIdle
  /\ FetchIdle
  /\ RrIdle
  /\ HsInit

HsSpec == HsSpecInit /\ [][HsNext]_vars

\* Time passes, every worker inside rateLimit that can take a step does,
\* and a started SetRateLimit finishes.
RLProgress(w) ==
  \/ RLLookupLocal(w)
  \/ RLCreateLocal(w)
  \/ RLStoreLocal(w)
  \/ RLWaitTickLocal(w)
  \/ RLWaitTimeoutLocal(w)

\* Fairness is stated on the steps as they act on the rate limiter's own
\* state: every step of RateSpec leaves the rest of the state alone.
FairRateSpec ==
  /\ RateSpec
  /\ WF_rateVars(TickLocal)
  /\ WF_rateVars(SetRateClearLocal)
  /\ \A w \in RLCallers : WF_rateVars(RLProgress(w))

\* ------------------------------------------------------------------------
\* Properties
\* ------------------------------------------------------------------------

AllWorkersExited == \A w \in Workers : wpc[w] = "done"

StreamsClosed == pageClosed /\ errorClosed

\* The frontier is exhausted: the seed was sent, the frontier is empty and
\* every worker is back at its select, so no enqueue can follow.
FrontierExhausted ==
  /\ opc = "wait"
  /\ urlChan = <<>>
  /\ \A w \in Workers : wpc[w] = "select"

\* C1: no URL string is claimed (marked visited and processed further) by
\* more than one worker, and no URL is fetched more than once.
C1_ClaimedAtMostOnce ==
  \A u \in URLs : claimed[u] <= 1 /\ fetched[u] <= 1

\* C2: without cancellation, once the frontier is exhausted the run
\* terminates: all workers exit and both streams are closed.
C2_ExhaustedTerminates ==
  (FrontierExhausted /\ ~ctxDone) ~>
    ((AllWorkersExited /\ StreamsClosed) \/ ctxDone)

\* C3: after the cancellation signal fired, every worker eventually exits
\* and both output streams are eventually closed, whatever the consumer does.
C3_CancelClosesStreams ==
  ctxDone ~> (AllWorkersExited /\ StreamsClosed)

\* C4: once the cancellation signal has fired, no worker dequeues another
\* target from the frontier (the frontier never gets shorter).
C4_NoDequeueAfterCancel ==
  [][ctxDone => Len(urlChan') >= Len(urlChan)]_vars

DepthInRange(t) == 0 <= t.depth /\ t.depth <= maxDepth

\* A step that puts a target in the frontier is the seed at depth 0, or a
\* worker enqueueing the next link of its page, delivered at a depth below
\* maxDepth, one level deeper.
EnqueueRule ==
  Len(urlChan') > Len(urlChan) =>
    LET t == urlChan'[Len(urlChan')]
    IN \/ opc = "seed" /\ opc' = "wait" /\ t = Target(startURL, 0)
       \/ \E w \in Workers :
            /\ wpc[w] = "enqueue"
            /\ links'[w] = Tail(links[w])
            /\ cur[w].depth < maxDepth
            /\ t = Target(Head(links[w]), cur[w].depth + 1)

\* C5: with maxDepth >= 0 every target in the frontier or held by a worker
\* has 0 <= depth <= maxDepth; the seed has depth 0, a link of a page
\* delivered at depth d is enqueued at depth d+1 and only when d < maxDepth.
C5_DepthBounded ==
  /\ [](maxDepth >= 0 =>
         /\ \A i \in 1..Len(urlChan) : DepthInRange(urlChan[i])
         /\ \A w \in Workers : cur[w] # NoTarget => DepthInRange(cur[w])
         /\ \A w \in Workers : wpc[w] = "enqueue" => cur[w].depth < maxDepth)
  /\ [][EnqueueRule]_vars

\* A page delivered at depth maxDepth >= 1 carries links, its worker is back
\* at its select, and the frontier holds a target of depth maxDepth.
C5_Witness ==
  /\ maxDepth >= 1
  /\ \E w \in Workers :
       /\ wpc[w] = "select"
       /\ \E i \in 1..Len(pageChan) :
            pageChan[i].depth = maxDepth /\ pageChan[i].links # <<>>
  /\ \E i \in 1..Len(urlChan) : urlChan[i].depth = maxDepth

\* C6: with maxDepth = 0 only the seed is ever dequeued and fetched, at
\* most once, and nothing is enqueued after the seed.
C6_SeedOnly ==
  maxDepth = 0 =>
    /\ fetched[startURL] <= 1
    /\ \A u \in URLs \ {startURL} : fetched[u] = 0
    /\ \A w \in Workers : cur[w] \in {NoTarget, Target(startURL, 0)}
    /\ \A w \in Workers : wpc[w] # "enqueue"
    /\ urlChan \in {<<>>, <<Target(startURL, 0)>>}
    /\ urlChan # <<>> =>
         fetched[startURL] = 0 /\ \A w \in Workers : cur[w] = NoTarget

\* With maxDepth = 0 the seed page was fetched and delivered with two
\* links, and the frontier stayed empty.
C6_Witness ==
  /\ maxDepth = 0
  /\ fetched[startURL] = 1
  /\ pageChan # <<>>
  /\ Len(Head(pageChan).links) = 2
  /\ urlChan = <<>>
  /\ \A w \in Workers : wpc[w] = "select"

\* C7: the page stream, the error stream and the frontier channel are
\* closed only after every worker has exited, and no worker ever sends on
\* a closed channel.
C7_CloseAfterWorkers ==
  /\ ~panicked
  /\ (urlClosed \/ errorClosed \/ pageClosed) => AllWorkersExited
  /\ opc \in {"closeUrl", "closeError", "closePage", "done"} => AllWorkersExited

\* A run that fetched something and closed all three channels.
C7_Witness ==
  /\ urlClosed /\ errorClosed /\ pageClosed
  /\ opc = "done"
  /\ \E u \in URLs : fetched[u] > 0

\* C8: with a positive configured rate R and no call of SetRateLimit, two
\* requests of one domain get past the rate limiter less than one second
\* apart only if the interval 1/R is shorter than one second.
C8_OnePerInterval ==
  [][\A w \in RLCallers :
       (/\ rpc[w] = "wait"
        /\ rpc'[w] = "idle"
        /\ setCalls = 0
        /\ Positive(configured)
        /\ passedNow[rdom[w]])
       => configured[2] < configured[1]]_vars

\* C9: no call of rateLimit waits in its select for more than the grace
\* timeout, and every call that entered rateLimit returns, also when the
\* ticker it waits on was stopped by SetRateLimit.
C9_ReturnsWithinGrace ==
  /\ [](\A w \in RLCallers : rwaited[w] <= GraceTimeout)
  /\ \A w \in RLCallers : (rpc[w] # "idle") ~> (rpc[w] = "idle")

\* A call has waited the whole grace timeout on a ticker that SetRateLimit
\* stopped and that holds no tick.
C9_Witness ==
  \E w \in RLCallers :
    /\ rpc[w] = "wait"
    /\ tickers[rtick[w]].stopped
    /\ tickers[rtick[w]].buf = 0
    /\ rwaited[w] = GraceTimeout

\* C10: a call of rateLimit goes past its first test, towards creating a
\* gate and waiting, only when the configured rate is positive.
C10_DisabledWhenNotPositive ==
  [][\A w \in RLCallers :
       (rpc[w] = "idle" /\ rpc'[w] = "lookup") => Positive(configured)]_vars

\* C11: when fetching or parsing robots.txt failed, GetRobots returned no
\* error and a permissive policy (empty disallow list, zero crawl delay):
\* every path is allowed and canCrawl answers true.
C11_FailureIsPermissive ==
  \A c \in RLCallers :
    gout[c].how \in {"fetchFailed", "parseFailed"} =>
      /\ ~gout[c].err
      /\ gout[c].robots.Disallow = <<>>
      /\ gout[c].robots.CrawlDelay = 0
      /\ \A p \in RobotsPaths : CanCrawl(gout[c].robots, p)
      /\ gpc[c] = "idle" => gallowed[c]

\* canCrawl answered true for "/a" after a failed parse, while another
\* call got a parsed policy that disallows something.
C11_Witness ==
  \E c, e \in RLCallers :
    /\ gpc[c] = "idle"
    /\ gout[c].how = "parseFailed"
    /\ gpath[c] = <<"/", "a">>
    /\ gallowed[c]
    /\ gout[e].how = "parsed"
    /\ gout[e].robots.Disallow # <<>>

\* C12: a robots.txt request answered with status 404 yields a fully
\* permissive policy (no disallowed prefix, zero delay) whatever the body
\* holds, and once GetRobots has returned the domain has a cache entry, so
\* that later calls issue no request.
C12_NotFoundIsPermissive ==
  \A c \in RLCallers :
    gout[c].status = 404 =>
      /\ gout[c].robots.Disallow = <<>>
      /\ gout[c].robots.CrawlDelay = 0
      /\ gpc[c] \in {"canCrawl", "idle"} => robotsCache[gdom[c]] # NoRobots

\* C13: a GetRobots call that began after a call for the same domain had
\* returned (with any outcome) issues no robots.txt request: it is answered
\* from the cache.
C13_LaterCallsFromCache ==
  [][\A c \in RLCallers :
       (glater[c] /\ gpc[c] = "lookup") => gpc'[c] # "get"]_vars

\* A stored disallow entry is a literal string prefix of the path.
LiteralPrefix(entry, path) ==
  Len(entry) <= Len(path) /\ SubSeq(path, 1, Len(entry)) = entry

\* C14: CanCrawl(path) is false exactly when some stored disallow entry is
\* a literal prefix of the path (an entry "/*" is no pattern), and a policy
\* with an empty disallow list allows every path.
C14_LiteralPrefixOnly ==
  \A c \in RLCallers :
    (gpc[c] = "idle" /\ gout[c].how # "") =>
      LET dis == gout[c].robots.Disallow
      IN /\ gallowed[c] =
              ~(\E i \in 1..Len(dis) : LiteralPrefix(dis[i], gpath[c]))
         /\ dis = <<>> => \A p \in RobotsPaths : CanCrawl(gout[c].robots, p)

\* One call was allowed "/a" under the single entry "/*"; another was
\* refused "/ab" under the single entry "/a".
C14_Witness ==
  \E c, e \in RLCallers :
    /\ gpc[c] = "idle" /\ gpc[e] = "idle"
    /\ gout[c].robots.Disallow = << <<"/", "*">> >>
    /\ gpath[c] = <<"/", "a">>
    /\ gallowed[c]
    /\ gout[e].robots.Disallow = << <<"/", "a">> >>
    /\ gpath[e] = <<"/", "a", "b">>
    /\ ~gallowed[e]

\* The step in which canCrawl answers false for the target of worker w.
Denied(w) == verdict[w] # "deny" /\ verdict'[w] = "deny"

\* C15: with RespectRobots set, a target for which canCrawl answered false
\* is dropped in that very step: the worker goes back to its select without
\* the target, nothing is fetched, rate limited, sent or enqueued, and a
\* worker never holds a denied target at the rate limiter or beyond.
C15_DisallowedIsSkipped ==
  /\ [](\A w \in Workers :
          verdict[w] = "deny" =>
            /\ respectRobots
            /\ wpc[w] \in {"select", "done"}
            /\ cur[w] = NoTarget)
  /\ [][\A w \in Workers :
          Denied(w) =>
            /\ wpc[w] = "robots" /\ wpc'[w] = "select"
            /\ UNCHANGED <<pageChan, errorChan, urlChan, fetched, pageEvents,
                           errorEvents, rateVars>>]_vars

\* A worker skipped the denied page "https://a.test/p", dequeued at depth 1,
\* and is back at its select; the page was never fetched and produced no
\* event, while the seed was fetched.
C15_Witness ==
  /\ \E w \in Workers : verdict[w] = "deny" /\ wpc[w] = "select"
  /\ "https://a.test/p" \in visited
  /\ fetched["https://a.test/p"] = 0
  /\ pageEvents["https://a.test/p"] = 0
  /\ errorEvents["https://a.test/p"] = 0
  /\ fetched[startURL] = 1

\* What a worker does with a target whose fetch or parse failed: it sends
\* one error event for the target's URL, no page event, enqueues nothing,
\* leaves the URL in the visited set and goes back to its select.
FailedTargetRule ==
  \A w \in Workers :
    (wpc[w] = "sendError" /\ wpc'[w] # "sendError") =>
      /\ wpc'[w] = "select"
      /\ errorEvents' = [errorEvents EXCEPT ![cur[w].url] = @ + 1]
      /\ errorChan' = Append(errorChan, cur[w].url)
      /\ UNCHANGED <<pageChan, pageEvents, urlChan, visited>>
      /\ cur[w].url \in visited

\* Once an error event was emitted for a URL, the URL is not fetched again.
NoFetchAfterFailure ==
  \A u \in URLs : errorEvents[u] >= 1 => fetched'[u] = fetched[u]

\* C16: a failed target gives exactly one error event, no page event and no
\* enqueue, its worker continues with the next target, and its URL is never
\* fetched again in the run.
C16_FailedNeverRetried ==
  [][FailedTargetRule /\ NoFetchAfterFailure]_vars

\* What a worker does with a page it fetched: it sends one page event that
\* carries the URL and the depth of its target, and no error event.
DeliveredTargetRule ==
  \A w \in Workers :
    (wpc[w] = "sendPage" /\ wpc'[w] # "sendPage") =>
      /\ pageEvents' = [pageEvents EXCEPT ![cur[w].url] = @ + 1]
      /\ Len(pageChan') = Len(pageChan) + 1
      /\ pageChan'[Len(pageChan')].url = cur[w].url
      /\ pageChan'[Len(pageChan')].depth = cur[w].depth
      /\ UNCHANGED <<errorChan, errorEvents>>

\* C17: each successful fetch produces exactly one page event with the
\* depth of its target and no error event, and over the whole run a URL has
\* at most one page event.
C17_OnePagePerURL ==
  /\ [](\A u \in URLs : pageEvents[u] <= 1)
  /\ [][DeliveredTargetRule]_vars

\* C18: URL normalization is idempotent: for every URL on which Normalize
\* succeeds (paths ending in one or several slashes, explicit ports,
\* fragments, unsorted queries), normalizing the normalized string gives
\* the same string.
C18_NormalizeIdempotent ==
  npc \in {"twice", "valid"} => ntwice = nonce

\* C19: IsValid returns false for every URL, of any scheme and host, whose
\* path ends in .pdf, or whose path starts with /admin, or whose query has
\* download=1.
C19_RejectsPrefixed ==
  (/\ npc = "valid"
   /\ \/ HasSuffix(nraw.path, <<".", "p", "d", "f">>)
      \/ HasPrefix(nraw.path, <<"/", "a", "d", "m", "i", "n">>)
      \/ \E i \in 1..Len(nraw.query) : nraw.query[i] = Pair("download", "1"))
    => nvalid = FALSE

\* A URL that only the /admin prefix rejects has been validated.
C19_Witness ==
  /\ npc = "valid"
  /\ nraw.scheme = "https"
  /\ nraw.name = "a.test"
  /\ nraw.path = <<"/", "a", "d", "m", "i", "n", "/", "a">>
  /\ nraw.query = <<>>
  /\ nvalid = FALSE

\* C19 as stated: /admin at any position of the path is rejected.
C19_RejectsContained ==
  (/\ npc = "valid"
   /\ \/ HasSuffix(nraw.path, <<".", "p", "d", "f">>)
      \/ \E i \in 1..Len(nraw.path) :
           /\ i + 5 <= Len(nraw.path)
           /\ SubSeq(nraw.path, i, i + 5) = <<"/", "a", "d", "m", "i", "n">>
      \/ \E i \in 1..Len(nraw.query) : nraw.query[i] = Pair("download", "1"))
    => nvalid = FALSE

\* C20: for any two backend result lists and any limit >= 0, the list
\* returned by combineResults is sorted by non-increasing fused score, has
\* at most limit entries, contains each chunkID at most once, and consists
\* of the highest-scoring fused entries: every returned entry is a fused
\* entry with its fused score, and no omitted entry has a strictly higher
\* fused score than a returned one.
C20_FusedTopSorted ==
  fpc = "returned" =>
    /\ \A i, j \in DOMAIN fret : i < j => fret[i].Score >= fret[j].Score
    /\ Len(fret) <= limit
    /\ \A i, j \in DOMAIN fret : fret[i].ChunkID = fret[j].ChunkID => i = j
    /\ \A i \in DOMAIN fret :
         /\ fret[i].ChunkID \in DOMAIN resultMap
         /\ fret[i].Score = resultMap[fret[i].ChunkID]
    /\ \A k \in DOMAIN resultMap :
         (\A i \in DOMAIN fret : fret[i].ChunkID # k) =>
           \A i \in DOMAIN fret : resultMap[k] <= fret[i].Score

\* A call returned two of three fused entries, one of them merged from
\* both backends, and omitted an entry of strictly lower score.
C20_Witness ==
  /\ fpc = "returned"
  /\ Cardinality(DOMAIN resultMap) = 3
  /\ limit = 2
  /\ Len(fret) = 2
  /\ fret[1].Score > fret[2].Score
  /\ \E k \in DOMAIN resultMap : resultMap[k] < fret[2].Score
  /\ \E i \in DOMAIN vectorResults : \E j \in DOMAIN bm25Results :
       vectorResults[i].ChunkID = bm25Results[j].ChunkID

\* Every chunk ID occurs at most once in the list.
OncePerList(results) ==
  \A i, j \in DOMAIN results : results[i].ChunkID = results[j].ChunkID => i = j

\* The two backend lists share no chunk ID, each naming a chunk once.
DisjointBackends ==
  /\ OncePerList(vectorResults)
  /\ OncePerList(bm25Results)
  /\ \A i \in DOMAIN vectorResults : \A j \in DOMAIN bm25Results :
       vectorResults[i].ChunkID # bm25Results[j].ChunkID

\* C21: when the vector and lexical lists have disjoint chunk IDs (either
\* list possibly empty), the call returns, every input chunk is in the
\* fused set with its raw score times 0.7 (vector) or 0.3 (lexical), the
\* fused set holds nothing else, and the returned list is that set in
\* non-increasing score order cut to limit.
C21_DisjointKeepsWeighted ==
  (fpc = "returned" /\ DisjointBackends) =>
    /\ \A i \in DOMAIN vectorResults :
         /\ vectorResults[i].ChunkID \in DOMAIN resultMap
         /\ resultMap[vectorResults[i].ChunkID] * 10 = vectorResults[i].Score * 7
    /\ \A j \in DOMAIN bm25Results :
         /\ bm25Results[j].ChunkID \in DOMAIN resultMap
         /\ resultMap[bm25Results[j].ChunkID] * 10 = bm25Results[j].Score * 3
    /\ Cardinality(DOMAIN resultMap) = Len(vectorResults) + Len(bm25Results)
    /\ Len(fret) = IF Cardinality(DOMAIN resultMap) > limit
                     THEN limit ELSE Cardinality(DOMAIN resultMap)
    /\ \A i \in DOMAIN fret :
         /\ fret[i].ChunkID \in DOMAIN resultMap
         /\ fret[i].Score = resultMap[fret[i].ChunkID]
         /\ \A j \in DOMAIN fret : i < j =>
              /\ fret[i].Score >= fret[j].Score
              /\ fret[i].ChunkID # fret[j].ChunkID

\* A call with two vector hits and one lexical hit on three different
\* chunks returned all three, the lexical hit last although its raw score
\* is the highest.
C21_Witness ==
  /\ fpc = "returned"
  /\ DisjointBackends
  /\ Len(vectorResults) = 2
  /\ Len(bm25Results) = 1
  /\ limit = 3
  /\ Len(fret) = 3
  /\ bm25Results[1].Score > vectorResults[1].Score
  /\ fret[3].ChunkID = bm25Results[1].ChunkID

\* C22: a chunk ID returned once by the vector backend with score v and
\* once by the lexical backend with score b has the fused score
\* (v*0.7)*0.7 + b*0.3.
C22_BlendOfBoth ==
  fpc \in {"collect", "sort", "return", "returned"} =>
    \A i \in DOMAIN vectorResults : \A j \in DOMAIN bm25Results :
      (/\ vectorResults[i].ChunkID = bm25Results[j].ChunkID
       /\ \A k \in DOMAIN vectorResults :
            vectorResults[k].ChunkID = vectorResults[i].ChunkID => k = i
       /\ \A k \in DOMAIN bm25Results :
            bm25Results[k].ChunkID = bm25Results[j].ChunkID => k = j)
      => resultMap[vectorResults[i].ChunkID] * 100
           = vectorResults[i].Score * 49 + bm25Results[j].Score * 30

\* The chunk c1 came back with 0.9 from the vector backend and 0.6 from the
\* lexical backend and was fused to 0.621.
C22_Witness ==
  /\ fpc = "returned"
  /\ vectorResults = <<SearchResult("c1", 9 * ScoreUnit)>>
  /\ bm25Results = <<SearchResult("c1", 6 * ScoreUnit)>>
  /\ resultMap["c1"] * 1000 = 6210 * ScoreUnit
  /\ limit = 1
  /\ fret = <<SearchResult("c1", resultMap["c1"])>>

C24_ReturnsTruncatedSearch ==
  /\ retPc = "returned" =>
       /\ Len(retRet) = IF retLimit < Len(searchResults)
                          THEN retLimit ELSE Len(searchResults)
       /\ \A i \in DOMAIN retRet : retRet[i] = searchResults[i]
  /\ retPc \in {"call", "check", "truncate"} => ENABLED RetrieveStep

\* Retrieve returned the first of two results, and the rerank task got
\* both results and returned them in the other order.
C24_Witness ==
  /\ retPc = "returned"
  /\ retLimit = 1
  /\ searchResults = <<1, 2>>
  /\ retRet = <<1>>
  /\ taskPc = "done"
  /\ taskArg = <<1, 2>>
  /\ taskOut = <<2, 1>>

\* C25: the rerank task runs under its own cancellation scope with a
\* 30-second timeout: cancelling the caller's context does not end its
\* context before the timeout, the task never runs past the timeout and
\* always ends, and at most one task is started per Retrieve call, only
\* when a reranker is set and the search returned at least one result.
C25_DetachedBoundedTask ==
  /\ [](taskPc = "rerank" /\ taskElapsed < RerankTimeout => ~taskCtx.done)
  /\ [](taskElapsed <= RerankTimeout)
  /\ [](taskCount <= 1)
  /\ [](taskCount = 1 => reranker /\ Len(searchResults) > 0)
  /\ [](retPc \in {"truncate", "returned"} /\ reranker /\ Len(searchResults) > 0
          => taskCount = 1)
  /\ (taskPc \in {"start", "rerank"}) ~> (taskPc = "done")

\* The caller cancelled its context after Retrieve returned, and the task
\* is still inside Rerank with a live context at the last second.
C25_Witness ==
  /\ retPc = "returned"
  /\ callerDone
  /\ taskPc = "rerank"
  /\ ~taskCtx.done
  /\ taskElapsed = RerankTimeout - 1

\* Some line of the answer starts with RERANKED: and holds a number that
\* is the 1-based index of a result.
UsableAnswer ==
  \E i \in DOMAIN lresponse :
    /\ lresponse[i].label = "RERANKED:"
    /\ \E j \in DOMAIN lresponse[i].pieces :
         /\ Sscanf(lresponse[i].pieces[j]).ok
         /\ Sscanf(lresponse[i].pieces[j]).index \in 1..Len(ltexts)

\* C26: Rerank never returns an error because the answer could not be
\* parsed: when the answer has no RERANKED line with at least one in-range
\* 1-based index, Rerank returns the input texts in their original order
\* and a nil error; an error is returned only when Generate failed.
C26_ParseFailureFallsBack ==
  lpc = "returned" =>
    /\ (lresponse # <<>> /\ ~UsableAnswer) => (lout = ltexts /\ ~lerr)
    /\ lerr => lfailed

\* The answer held a line without the prefix and a RERANKED line whose
\* numbers are out of range or not numbers; both texts came back in order.
C26_Witness ==
  /\ lpc = "returned"
  /\ ltexts = <<"t1", "t2">>
  /\ lresponse = <<[label |-> "reranked:", pieces |-> <<"1", "2x">>],
                   [label |-> "RERANKED:", pieces |-> <<"9", "abc">>]>>
  /\ lout = <<"t1", "t2">>
  /\ ~lerr

\* C27: at the end of a crawl command run the summary counts are exact:
\* the page count is the number of page events the crawler sent, and the
\* error count is the number of error events it sent.
C27_SummaryCountsExact ==
  cliPc = "done" =>
    /\ pageCount = emittedPages
    /\ errorCount = emittedErrors

\* C28: after SaveChunks(docID, chunks) returned without error the chunks
\* stored for docID are exactly the given chunks, for every chunk list
\* including the empty one; after it returned an error the stored chunks
\* are unchanged.
C28_ReplacesAllChunks ==
  sPc = "returned" =>
    IF sErr
      THEN chunksTable = sBefore
      ELSE {k \in StoreChunkIds : chunksTable[k] = sDoc}
             = {sChunks[i] : i \in DOMAIN sChunks}

\* C29: for every request the search endpoint accepts, the limit handed to
\* Retrieve lies between 1 and 100: it is 10 when the request gives no
\* limit or 0, 100 when it gives more than 100, and never zero or negative.
C29_LimitWithinBounds ==
  \A handed \in hHanded :
    /\ handed \in 1..100
    /\ (hLimitText \in {"", "0"}) => handed = 10
    /\ (~Atoi(hLimitText).err /\ Atoi(hLimitText).value > 100) => handed = 100

\* C30: for every positive configured rate R = n/d the interval of a newly
\* created gate is exactly 1/R = d/n seconds (0.5 s for R = 2, 10 s for
\* R = 0.1, 250 ms for R = 4).
C30_IntervalIsReciprocal ==
  gPc = "created" => gInterval * gRate[1] = gRate[2]

\* C31: while SetRateLimit is not called, a gate once stored for a domain
\* is never replaced: the domain has one ticker for the whole run, also
\* when several workers issue their first request to it concurrently.
C31_GateNeverReplaced ==
  [][\A d \in RLDomains :
       (setCalls = 0 /\ setCalls' = 0 /\ rateLimiters[d] # 0)
       => rateLimiters'[d] = rateLimiters[d]]_vars

\* C32: after SetRateLimit(newRate) returned with a positive rate, every
\* gate of the map was created with an interval derived from newRate: no
\* gate created with the old rate paces a request.
C32_NoGateOfOldRate ==
  (srpc = "idle" /\ setCalls > 0 /\ Positive(rateLimit)) =>
    \A d \in RLDomains :
      rateLimiters[d] # 0 =>
        tickers[rateLimiters[d]].interval = Interval(rateLimit)

\* C33: a robots policy stored in the cache for a domain is never replaced
\* or modified afterwards, in every interleaving of concurrent GetRobots
\* calls: the entry of a domain is written at most once.
C33_EntryWrittenOnce ==
  [][\A d \in RLDomains :
       robotsCache[d] # NoRobots => robotsCache'[d] = robotsCache[d]]_vars

\* The User-agent line that governs line i of a body: the most recent one
\* before it (0: none).
SectionOf(body, i) ==
  LET before == {j \in 1..(i - 1) : body[j].key = "user-agent"}
  IN IF before = {} THEN 0 ELSE CHOOSE j \in before : \A k \in before : k <= j

\* Line i is a Disallow or Crawl-delay line of a section for `*` or for
\* exactly the configured agent.
KeptLine(body, i) ==
  /\ body[i].key \in {"disallow", "crawl-delay"}
  /\ SectionOf(body, i) # 0
  /\ body[SectionOf(body, i)].agent \in {"*", UserAgent}

\* The paths of the kept Disallow lines among the first n lines, in file
\* order; a Disallow line without a path names no prefix.
RECURSIVE KeptPrefixes(_, _)
KeptPrefixes(body, n) ==
  IF n = 0 THEN <<>>
  ELSE IF KeptLine(body, n) /\ body[n].key = "disallow" /\ body[n].path # <<>>
    THEN Append(KeptPrefixes(body, n - 1), body[n].path)
  ELSE KeptPrefixes(body, n - 1)

\* The value of the last kept Crawl-delay line with an integer value.
KeptDelay(body) ==
  LET kept == {i \in 1..Len(body) :
                 /\ KeptLine(body, i)
                 /\ body[i].key = "crawl-delay"
                 /\ body[i].delay \in {"-5", "0", "1", "2", "7"}}
  IN IF kept = {} THEN 0
     ELSE LET last == CHOOSE i \in kept : \A k \in kept : k <= i
          IN CASE body[last].delay = "-5" -> 0 - 5
               [] body[last].delay = "0" -> 0
               [] body[last].delay = "1" -> 1
               [] body[last].delay = "2" -> 2
               [] body[last].delay = "7" -> 7

\* C34: parseRobotsTxt keeps a Disallow or Crawl-delay line only when the
\* most recent User-agent line before it names `*` or exactly the
\* configured agent: the Disallow prefixes of the matching sections are
\* accumulated in file order, the Crawl-delay is that of the last kept
\* Crawl-delay line with an integer value, and the other lines change
\* nothing.
C34_KeepsMatchingSections ==
  pPc = "parsed" =>
    /\ pRobots.UserAgent = UserAgent
    /\ pRobots.Disallow = KeptPrefixes(pBody, Len(pBody))
    /\ pRobots.CrawlDelay = KeptDelay(pBody)

\* A body was parsed that has a Disallow line before any User-agent line,
\* then a section for `*` with a Disallow line and a Crawl-delay line: one
\* prefix and the delay were kept.
C34_Witness ==
  /\ pPc = "parsed"
  /\ pBody = <<DisLine(<<"/", "b">>), UALine("*"), DisLine(<<"/", "a">>),
               DelayLine("2")>>
  /\ pRobots.Disallow = <<<<"/", "a">>>>
  /\ pRobots.CrawlDelay = 2

\* C35: for every URL on which Normalize succeeds, the result has scheme
\* https whenever the input scheme was http or https, a lower-case host, no
\* explicit default port (port 80 of an http URL and port 443 of an https
\* URL are both removed), no trailing slash on a path other than the root,
\* no fragment, and its query parameters sorted by key.
C35_NormalForm ==
  npc # "input" =>
    LET in == Parse(nraw)
    IN /\ in.Scheme \in {"http", "https"} => nonce.scheme = "https"
       /\ nonce.name = ToLower(nonce.name)
       /\ (in.Scheme = "http" /\ in.Host.port = "80") => nonce.port = ""
       /\ (in.Scheme = "https" /\ in.Host.port = "443") => nonce.port = ""
       /\ nonce.path # <<"/">> => nonce.path[Len(nonce.path)] # "/"
       /\ nonce.fragment = ""
       /\ \A i, j \in 1..Len(nonce.query) :
            i < j => KeyRank(nonce.query[i].k) <= KeyRank(nonce.query[j].k)

\* A URL string is in normalized form when Normalize gives it back, and
\* passes validation when IsValid accepts it.
NormalizedAndValid(str) ==
  /\ String(Normalize(str)) = str
  /\ IsValid(Parse(str))

\* C36: every target placed in the frontier, the seed as well as every
\* discovered link, carries a URL in normalized form that passes IsValid,
\* so no URL that fails validation is ever fetched.
C36_FrontierNormalizedValid ==
  /\ \A i \in 1..Len(inFrontier) : NormalizedAndValid(inFrontier[i])
  /\ \A str \in inFetched : NormalizedAndValid(str)

\* C37: fetchAndParse rejects a response because of its status exactly
\* when the status is outside 200..299: every 2xx response whose
\* Content-Type contains text/html and whose body parses yields a Page, and
\* every other status yields an error.
C37_RejectsExactlyNon2xx ==
  (fPc = "done" /\ ~fResp.failed) =>
    /\ (fResp.status \in 200..299 /\ fResp.html /\ fResp.parses) => fOut = "page"
    /\ fResp.status \notin 200..299 => fOut = "error"

\* How often x stands in a list.
Occurrences(list, x) == Cardinality({i \in 1..Len(list) : list[i] = x})

\* C38: whenever llmReranker.Rerank returns without error, its output is a
\* permutation of its input: every input result appears exactly once and
\* nothing else appears, for every answer of the model and also when
\* several results have the same text.
C38_OutputIsPermutation ==
  (rrPc = "returned" /\ ~rrErr) =>
    /\ Len(rrOut) = Len(rrResults)
    /\ \A i \in 1..Len(rrResults) : Occurrences(rrOut, rrResults[i]) = 1

\* C39: in a run that is not cancelled, backpressure on the bounded
\* frontier never stops the crawl: in no reachable state is every worker
\* blocked sending a discovered link into the full frontier, with no worker
\* left to receive from it.
C39_BackpressureNeverStops ==
  ~(/\ ~ctxDone
    /\ ~urlClosed
    /\ Len(urlChan) = UrlChanCap
    /\ \A w \in Workers : wpc[w] = "enqueue")

====
